---- MODULE Spec2Model ----
(***************************************************************************)
(* Model of the portfolio allocation engine (PortfolioCalculator) and of   *)
(* the monthly simulation loop (AdvancedPortfolioSimulator) of             *)
(* src/src/utils/stock-market-simulator.ts.                                *)
(*                                                                         *)
(* Numbers.  A JavaScript number is modelled as a pair <<n, d>>:            *)
(*   d > 0          the rational n/d in lowest terms (exact arithmetic),   *)
(*   <<0, 0>>       NaN,   <<1, 0>> +Infinity,   <<-1, 0>> -Infinity.      *)
(* Arithmetic follows the IEEE rules for the special values (NaN is        *)
(* contagious, every comparison with NaN is false) and is exact on the     *)
(* finite values; signed zeros and overflow are not modelled.              *)
(***************************************************************************)
EXTENDS Integers, Sequences, FiniteSets, TLC

----------------------------------------------------------------------------
(* Exact arithmetic on JavaScript numbers                                  *)

AbsInt(a) == IF a < 0 THEN -a ELSE a

SignInt(a) == IF a < 0 THEN -1 ELSE IF a > 0 THEN 1 ELSE 0

RECURSIVE GCD(_, _)
GCD(a, b) == IF b = 0 THEN a ELSE GCD(b, a % b)

\* n/d in lowest terms, d > 0 required.
Q(n, d) == LET g == GCD(AbsInt(n), d) IN <<n \div g, d \div g>>

NaN == <<0, 0>>
PosInf == <<1, 0>>
NegInf == <<-1, 0>>
Zero == <<0, 1>>
One == <<1, 1>>

IsNaN(x) == x = NaN
IsFinite(x) == x[2] > 0
Sign(x) == SignInt(x[1])

Neg(x) == <<-x[1], x[2]>>

Add(x, y) ==
    IF IsNaN(x) \/ IsNaN(y) THEN NaN
    ELSE IF ~IsFinite(x) THEN (IF ~IsFinite(y) /\ y # x THEN NaN ELSE x)
    ELSE IF ~IsFinite(y) THEN y
    ELSE LET g == GCD(x[2], y[2])
             l == (x[2] \div g) * y[2]
         IN  Q(x[1] * (l \div x[2]) + y[1] * (l \div y[2]), l)

Sub(x, y) == Add(x, Neg(y))

Mul(x, y) ==
    IF IsNaN(x) \/ IsNaN(y) THEN NaN
    ELSE IF ~IsFinite(x) \/ ~IsFinite(y)
         THEN (IF Sign(x) * Sign(y) = 0 THEN NaN ELSE <<Sign(x) * Sign(y), 0>>)
    ELSE LET g1 == GCD(AbsInt(x[1]), y[2])
             g2 == GCD(AbsInt(y[1]), x[2])
         IN  <<(x[1] \div g1) * (y[1] \div g2), (x[2] \div g2) * (y[2] \div g1)>>

Div(x, y) ==
    IF IsNaN(x) \/ IsNaN(y) THEN NaN
    ELSE IF ~IsFinite(y) THEN (IF IsFinite(x) THEN Zero ELSE NaN)
    ELSE IF y[1] = 0 THEN <<Sign(x), 0>>
    ELSE IF ~IsFinite(x) THEN <<Sign(x) * Sign(y), 0>>
    ELSE Mul(x, <<SignInt(y[1]) * y[2], AbsInt(y[1])>>)

\* x < y, x <= y, x === y as JavaScript evaluates them (false on NaN).
Lt(x, y) ==
    IF IsNaN(x) \/ IsNaN(y) THEN FALSE
    ELSE IF ~IsFinite(x) \/ ~IsFinite(y)
         THEN (IF IsFinite(x) THEN y = PosInf
               ELSE IF IsFinite(y) THEN x = NegInf
               ELSE x = NegInf /\ y = PosInf)
    ELSE LET g == GCD(x[2], y[2])
         IN  x[1] * (y[2] \div g) < y[1] * (x[2] \div g)

Eq(x, y) == ~IsNaN(x) /\ ~IsNaN(y) /\ x = y
Le(x, y) == Lt(x, y) \/ Eq(x, y)
Gt(x, y) == Lt(y, x)
Ge(x, y) == Le(y, x)

\* Math.max, Math.abs, Number.isInteger
MathMax(x, y) == IF IsNaN(x) \/ IsNaN(y) THEN NaN ELSE IF Lt(x, y) THEN y ELSE x
MathAbs(x) == <<AbsInt(x[1]), x[2]>>
IsInteger(x) == x[2] = 1

\* <<floor(r * k / d), (r * k) % d>> for 0 <= r < d and k >= 0, by doubling.
RECURSIVE MulDivMod(_, _, _)
MulDivMod(r, k, d) ==
    IF k = 0 THEN <<0, 0>>
    ELSE LET h == MulDivMod(r, k \div 2, d)
             t == 2 * h[2] + (k % 2) * r
         IN  <<2 * h[1] + (t \div d), t % d>>

\* Largest k with k * k <= n, for n >= 0.
ISqrt(n) == CHOOSE k \in 0..n : k * k <= n /\ (k + 1) * (k + 1) > n

\* Math.sqrt and Math.pow(x, 2).  The root is exact when numerator and
\* denominator are perfect squares; otherwise it is rounded down to a multiple
\* of 1/SqrtPrecision, as the floating-point root is rounded to its precision.
SqrtPrecision == 100

MathSqrt(x) ==
    IF IsNaN(x) \/ x = NegInf \/ (IsFinite(x) /\ x[1] < 0) THEN NaN
    ELSE IF x = PosInf THEN PosInf
    ELSE LET rn == ISqrt(x[1])
             rd == ISqrt(x[2])
         IN  IF rn * rn = x[1] /\ rd * rd = x[2] THEN <<rn, rd>>
             ELSE LET p2 == SqrtPrecision * SqrtPrecision
                  IN  Q(ISqrt((x[1] \div x[2]) * p2 + MulDivMod(x[1] % x[2], p2, x[2])[1]),
                        SqrtPrecision)

Pow2(x) == Mul(x, x)

\* parseFloat(x.toFixed(2)): nearest multiple of 0.01, ties away from zero.
ToFixed2(x) ==
    IF ~IsFinite(x) THEN x
    ELSE LET a == AbsInt(x[1])
             d == x[2]
             halfCents == (a \div d) * 200 + MulDivMod(a % d, 200, d)[1]
         IN  Q(SignInt(x[1]) * ((halfCents + 1) \div 2), 100)

\* parseFloat(x.toFixed(4)); halves are rounded away from zero.
ToFixed4(x) ==
    IF ~IsFinite(x) THEN x
    ELSE LET a == AbsInt(x[1])
             d == x[2]
             halfUnits == (a \div d) * 20000 + MulDivMod(a % d, 20000, d)[1]
         IN  Q(SignInt(x[1]) * ((halfUnits + 1) \div 2), 10000)

----------------------------------------------------------------------------
(* PortfolioCalculator                                                     *)

MIN_INTEREST_RATE == Q(1, 100)
MAX_INTEREST_RATE == Q(76, 1000)
DEFAULT_CORRELATION == Q(6, 10)
Hundred == <<100, 1>>

RECURSIVE SumSeq(_)
SumSeq(s) == IF s = <<>> THEN Zero ELSE Add(SumSeq(SubSeq(s, 1, Len(s) - 1)), s[Len(s)])

Threw(msg) == [threw |-> TRUE, error |-> msg]

\* The error of the first failing check of one stock, "ok" if none.
ValidateStock(stock) ==
    IF Le(stock.volatility, Zero) THEN "StockVolatilityNotPositive"
    ELSE IF stock.name = "" THEN "InvalidStockData"
    ELSE "ok"

\* Only the lower limit of the interest rate is enforced.
InterestRateBelowRange(rate) == Lt(rate, MIN_INTEREST_RATE)

\* The interest-rate condition of validateInputs.
InterestRateOutOfRange(rate) == Lt(rate, MIN_INTEREST_RATE) \/ Gt(rate, MAX_INTEREST_RATE)

\* The error validateInputs throws, "ok" if it returns normally.
validateInputs(totalAmount, stocks, bankAccount, targetPortfolioVolatility, correlation) ==
    LET bad == {i \in 1..Len(stocks) : ValidateStock(stocks[i]) # "ok"}
    IN  IF Lt(totalAmount, Zero) THEN "NegativeTotalAmount"
        ELSE IF bad # {}
             THEN ValidateStock(stocks[CHOOSE i \in bad : \A j \in bad : i <= j])
        ELSE IF InterestRateOutOfRange(bankAccount.interestRate)
             THEN "BankInterestRateOutOfRange"
        ELSE IF Lt(targetPortfolioVolatility, Zero) THEN "NegativeTargetVolatility"
        ELSE IF Lt(correlation, <<-1, 1>>) \/ Gt(correlation, One)
             THEN "CorrelationOutOfRange"
        ELSE "ok"

calculateStockSharpeRatios(stocks, riskFreeRate) ==
    [i \in 1..Len(stocks) |->
        LET excess == Sub(stocks[i].geometricMean, riskFreeRate)
        IN  IF Eq(stocks[i].volatility, Zero)
            THEN (IF Gt(excess, Zero) THEN PosInf ELSE IF Lt(excess, Zero) THEN NegInf ELSE Zero)
            ELSE Div(excess, stocks[i].volatility)]

\* The ratios are normalised over the sum of all of them, as q3.ts does.
calculateBasketWeightsOverAllRatios(stockSharpeRatios) ==
    LET n == Len(stockSharpeRatios)
        totalSharpe == SumSeq(stockSharpeRatios)
    IN  IF Eq(totalSharpe, Zero)
        THEN IF \A i \in 1..n : Eq(stockSharpeRatios[i], Zero)
             THEN [threw |-> FALSE,
                   weights |-> [i \in 1..n |-> Div(One, <<n, 1>>)]]
             ELSE Threw("TotalSharpeIsZero")
        ELSE [threw |-> FALSE,
              weights |-> [i \in 1..n |-> Div(stockSharpeRatios[i], totalSharpe)]]

\* No asset is attractive: nothing is placed in any of them.
calculateBasketWeightsNoneWhenUnattractive(stockSharpeRatios) ==
    LET n == Len(stockSharpeRatios)
        sumPositiveSharpe ==
            SumSeq(SelectSeq(stockSharpeRatios, LAMBDA r : Gt(r, Zero)))
    IN  [threw |-> FALSE,
         weights |-> [i \in 1..n |->
             IF Gt(stockSharpeRatios[i], Zero)
             THEN Div(stockSharpeRatios[i], sumPositiveSharpe)
             ELSE Zero]]

\* Every asset gets the same weight, whatever its ratio.
calculateBasketWeightsEqual(stockSharpeRatios) ==
    [threw |-> FALSE,
     weights |-> [i \in 1..Len(stockSharpeRatios) |->
                     Div(One, <<Len(stockSharpeRatios), 1>>)]]

\* The weights, or the error calculateBasketWeights throws.
calculateBasketWeights(stockSharpeRatios) ==
    LET n == Len(stockSharpeRatios)
        sumPositiveSharpe ==
            SumSeq(SelectSeq(stockSharpeRatios, LAMBDA r : Gt(r, Zero)))
    IN  IF Eq(sumPositiveSharpe, Zero)
        THEN IF \A i \in 1..n : Le(stockSharpeRatios[i], Zero)
             THEN [threw |-> FALSE,
                   weights |-> [i \in 1..n |-> Div(One, <<n, 1>>)]]
             ELSE Threw("SumOfPositiveSharpeIsZero")
        ELSE [threw |-> FALSE,
              weights |-> [i \in 1..n |->
                  IF Gt(stockSharpeRatios[i], Zero)
                  THEN Div(stockSharpeRatios[i], sumPositiveSharpe)
                  ELSE Zero]]

\* The inner loop over j = i + 1 .. n of the basket variance.
RECURSIVE CrossTerms(_, _, _, _, _)
CrossTerms(stocks, w, correlation, i, j) ==
    IF j > Len(stocks) THEN Zero
    ELSE Add(Mul(Mul(Mul(Mul(Mul(<<2, 1>>, w[i]), w[j]), stocks[i].volatility),
                     stocks[j].volatility), correlation),
             CrossTerms(stocks, w, correlation, i, j + 1))

\* The outer loop over i of the basket variance.
RECURSIVE BasketVariance(_, _, _, _)
BasketVariance(stocks, w, correlation, i) ==
    IF i > Len(stocks) THEN Zero
    ELSE Add(Add(Mul(Pow2(w[i]), Pow2(stocks[i].volatility)),
                 CrossTerms(stocks, w, correlation, i, i + 1)),
             BasketVariance(stocks, w, correlation, i + 1))

calculateBasketMetrics(stocks, basketWeights, riskFreeRate, correlation) ==
    LET basketExpectedReturn ==
            SumSeq([i \in 1..Len(stocks) |-> Mul(basketWeights[i], stocks[i].geometricMean)])
        basketVolatility == MathSqrt(BasketVariance(stocks, basketWeights, correlation, 1))
        excess == Sub(basketExpectedReturn, riskFreeRate)
    IN  [expectedReturn |-> basketExpectedReturn,
         volatility |-> basketVolatility,
         sharpeRatio |->
            IF Gt(basketVolatility, Zero) THEN Div(excess, basketVolatility)
            ELSE IF Eq(excess, Zero) THEN Zero
            ELSE IF Gt(basketExpectedReturn, riskFreeRate) THEN PosInf ELSE NegInf]

\* A basket that only matches the risk-free rate is preferred to the bank.
BasketWeightInPortfolioOnTie(basketMetrics, riskFreeRate, targetPortfolioVolatility) ==
    IF Eq(basketMetrics.volatility, Zero)
    THEN IF Eq(targetPortfolioVolatility, Zero)
         THEN [threw |-> FALSE,
               weight |-> IF Ge(basketMetrics.expectedReturn, riskFreeRate) THEN One ELSE Zero]
         ELSE Threw("ZeroVolatilityBasket")
    ELSE [threw |-> FALSE,
          weight |-> Div(targetPortfolioVolatility, basketMetrics.volatility)]

\* The quotient is taken the wrong way round: a target below the basket
\* volatility borrows.
BasketWeightInPortfolioInverted(basketMetrics, riskFreeRate, targetPortfolioVolatility) ==
    IF Eq(basketMetrics.volatility, Zero)
    THEN IF Eq(targetPortfolioVolatility, Zero)
         THEN [threw |-> FALSE,
               weight |-> IF Gt(basketMetrics.expectedReturn, riskFreeRate) THEN One ELSE Zero]
         ELSE Threw("ZeroVolatilityBasket")
    ELSE [threw |-> FALSE,
          weight |-> Div(basketMetrics.volatility, targetPortfolioVolatility)]

\* The share of the total placed in the basket, or the error thrown.
BasketWeightInPortfolio(basketMetrics, riskFreeRate, targetPortfolioVolatility) ==
    IF Eq(basketMetrics.volatility, Zero)
    THEN IF Eq(targetPortfolioVolatility, Zero)
         THEN [threw |-> FALSE,
               weight |-> IF Gt(basketMetrics.expectedReturn, riskFreeRate) THEN One ELSE Zero]
         ELSE Threw("ZeroVolatilityBasket")
    ELSE [threw |-> FALSE,
          weight |-> Div(targetPortfolioVolatility, basketMetrics.volatility)]

\* The subtraction is written the wrong way round.
BankWeightInPortfolioReversed(basketWeightInPortfolio) == Sub(basketWeightInPortfolio, One)

\* The share of the total placed in the bank.
BankWeightInPortfolio(basketWeightInPortfolio) == Sub(One, basketWeightInPortfolio)

\* The bank weight is reported as 100 even when nothing is invested.
EmptyStocksAllocationAlwaysFull(totalAmount, bankAccount, targetPortfolioVolatility) ==
    IF Eq(targetPortfolioVolatility, Zero)
    THEN [threw |-> FALSE,
          stocks |-> <<>>,
          bankAllocation |-> [name |-> bankAccount.name,
                              amount |-> totalAmount,
                              weightInTotal |-> Hundred],
          basketMetrics |-> [expectedReturn |-> Zero, volatility |-> Zero,
                             sharpeRatio |-> Zero],
          targetPortfolioVolatility |-> Zero,
          totalInvestment |-> totalAmount]
    ELSE Threw("NoStocksForTargetVolatility")

\* The branch of calculateAllocation for an empty stock list.
EmptyStocksAllocation(totalAmount, bankAccount, targetPortfolioVolatility) ==
    IF Eq(targetPortfolioVolatility, Zero)
    THEN [threw |-> FALSE,
          stocks |-> <<>>,
          bankAllocation |-> [name |-> bankAccount.name,
                              amount |-> totalAmount,
                              weightInTotal |-> IF Gt(totalAmount, Zero) THEN Hundred ELSE Zero],
          basketMetrics |-> [expectedReturn |-> Zero, volatility |-> Zero,
                             sharpeRatio |-> Zero],
          targetPortfolioVolatility |-> Zero,
          totalInvestment |-> totalAmount]
    ELSE Threw("NoStocksForTargetVolatility")

calculateAllocation(totalAmount, stocks, bankAccount, targetPortfolioVolatility, correlation) ==
    LET valid == validateInputs(totalAmount, stocks, bankAccount,
                                targetPortfolioVolatility, correlation)
        riskFreeRate == bankAccount.interestRate
        bw == calculateBasketWeights(calculateStockSharpeRatios(stocks, riskFreeRate))
        basketWeights == bw.weights
        basketMetrics == calculateBasketMetrics(stocks, basketWeights, riskFreeRate, correlation)
        bwp == BasketWeightInPortfolio(basketMetrics, riskFreeRate, targetPortfolioVolatility)
        basketWeightInPortfolio == bwp.weight
        bankWeightInPortfolio == BankWeightInPortfolio(basketWeightInPortfolio)
        totalAllocatedToBasket == Mul(totalAmount, basketWeightInPortfolio)
        totalAllocatedToBank == Mul(totalAmount, bankWeightInPortfolio)
    IN  IF valid # "ok" THEN Threw(valid)
        ELSE IF Len(stocks) = 0
        THEN EmptyStocksAllocation(totalAmount, bankAccount, targetPortfolioVolatility)
        ELSE IF bw.threw THEN bw
        ELSE IF bwp.threw THEN bwp
        ELSE [threw |-> FALSE,
              stocks |-> [i \in 1..Len(stocks) |->
                  [name |-> stocks[i].name,
                   amount |-> Mul(totalAllocatedToBasket, basketWeights[i]),
                   weightInBasket |-> Mul(basketWeights[i], Hundred),
                   weightInTotal |->
                       Mul(Mul(basketWeights[i], basketWeightInPortfolio), Hundred)]],
              bankAllocation |-> [name |-> bankAccount.name,
                                  amount |-> totalAllocatedToBank,
                                  weightInTotal |-> Mul(bankWeightInPortfolio, Hundred)],
              basketMetrics |-> [expectedReturn |-> Mul(basketMetrics.expectedReturn, Hundred),
                                 volatility |-> Mul(basketMetrics.volatility, Hundred),
                                 sharpeRatio |-> basketMetrics.sharpeRatio],
              targetPortfolioVolatility |-> Mul(targetPortfolioVolatility, Hundred),
              totalInvestment |-> totalAmount]

----------------------------------------------------------------------------
(* PortfolioCalculator of src/src/q3.ts                                    *)
(* Its calculateStockSharpeRatios, calculateBasketMetrics and the choice   *)
(* of the basket and bank weights are those of stock-market-simulator.ts,  *)
(* line for line; validateInputs, calculateBasketWeights and the handling  *)
(* of an empty stock list differ.                                          *)

\* The error validateInputs of q3.ts throws, "ok" if it returns normally.
q3_validateInputs(totalAmount, stocks, bankAccount, targetPortfolioVolatility, correlation) ==
    LET bad == {i \in 1..Len(stocks) : ValidateStock(stocks[i]) # "ok"}
    IN  IF Le(totalAmount, Zero) /\ Len(stocks) > 0 THEN "NonPositiveTotalAmount"
        ELSE IF bad # {}
             THEN ValidateStock(stocks[CHOOSE i \in bad : \A j \in bad : i <= j])
        ELSE IF InterestRateOutOfRange(bankAccount.interestRate)
             THEN "BankInterestRateOutOfRange"
        ELSE IF Lt(targetPortfolioVolatility, Zero) THEN "NegativeTargetVolatility"
        ELSE IF Lt(correlation, <<-1, 1>>) \/ Gt(correlation, One)
             THEN "CorrelationOutOfRange"
        ELSE "ok"

\* The weights, or the error calculateBasketWeights of q3.ts throws: every
\* ratio is divided by the sum of all ratios.
q3_calculateBasketWeights(stockSharpeRatios) ==
    LET n == Len(stockSharpeRatios)
        totalSharpe == SumSeq(stockSharpeRatios)
    IN  IF Eq(totalSharpe, Zero)
        THEN IF \A i \in 1..n : Eq(stockSharpeRatios[i], Zero)
             THEN [threw |-> FALSE,
                   weights |-> [i \in 1..n |-> Div(One, <<n, 1>>)]]
             ELSE Threw("TotalSharpeIsZero")
        ELSE [threw |-> FALSE,
              weights |-> [i \in 1..n |-> Div(stockSharpeRatios[i], totalSharpe)]]

\* calculateAllocation of q3.ts; an empty stock list takes the general path.
q3_calculateAllocation(totalAmount, stocks, bankAccount, targetPortfolioVolatility, correlation) ==
    LET valid == q3_validateInputs(totalAmount, stocks, bankAccount,
                                   targetPortfolioVolatility, correlation)
        riskFreeRate == bankAccount.interestRate
        bw == q3_calculateBasketWeights(calculateStockSharpeRatios(stocks, riskFreeRate))
        basketWeights == bw.weights
        basketMetrics == calculateBasketMetrics(stocks, basketWeights, riskFreeRate, correlation)
        bwp == BasketWeightInPortfolio(basketMetrics, riskFreeRate, targetPortfolioVolatility)
        basketWeightInPortfolio == bwp.weight
        bankWeightInPortfolio == BankWeightInPortfolio(basketWeightInPortfolio)
        totalAllocatedToBasket == Mul(totalAmount, basketWeightInPortfolio)
        totalAllocatedToBank == Mul(totalAmount, bankWeightInPortfolio)
    IN  IF valid # "ok" THEN Threw(valid)
        ELSE IF bw.threw THEN bw
        ELSE IF bwp.threw THEN bwp
        ELSE [threw |-> FALSE,
              stocks |-> [i \in 1..Len(stocks) |->
                  [name |-> stocks[i].name,
                   amount |-> Mul(totalAllocatedToBasket, basketWeights[i]),
                   weightInBasket |-> Mul(basketWeights[i], Hundred),
                   weightInTotal |->
                       Mul(Mul(basketWeights[i], basketWeightInPortfolio), Hundred)]],
              bankAllocation |-> [name |-> bankAccount.name,
                                  amount |-> totalAllocatedToBank,
                                  weightInTotal |-> Mul(bankWeightInPortfolio, Hundred)],
              basketMetrics |-> [expectedReturn |-> Mul(basketMetrics.expectedReturn, Hundred),
                                 volatility |-> Mul(basketMetrics.volatility, Hundred),
                                 sharpeRatio |-> basketMetrics.sharpeRatio],
              targetPortfolioVolatility |-> Mul(targetPortfolioVolatility, Hundred),
              totalInvestment |-> totalAmount]

----------------------------------------------------------------------------
(* AdvancedPortfolioSimulator.simulateInvestmentStrategy                   *)

BEST_CASE_RETURN_MULTIPLIER == Q(15, 10)
BEST_CASE_VOL_MULTIPLIER == Q(6, 10)
WORST_CASE_RETURN_MULTIPLIER == Q(3, 10)
WORST_CASE_ADDITIONAL_NEGATIVE_BIAS == Q(-75, 10000)
WORST_CASE_VOL_MULTIPLIER == Q(125, 100)
Twelve == <<12, 1>>

VARIABLES
    pc,                         \* where the call in execution stands
    initialInvestment, monthlyDeposit, stocks, bankAccount,
    targetOverallVolatility, durationInMonths, scenario, correlation,
    m,                          \* the loop counter
    history,                    \* the recorded states, month 0 first
    currentStockHoldings,       \* name -> value
    currentBankHolding,
    cumulativeCapitalInvested,
    reallocations,              \* per month >= 1: the capital to reallocate, the branch taken
    allocCall, allocResult,     \* a direct call of calculateAllocation and what it returned
    samples, scenarioMeans,     \* random factors and the mean return they give per scenario
    investmentCall,             \* the arguments of a call of simulateInvestment
    portfolioValue, totalAmountInvested, actualMonthlyReturn,
    results,                    \* the states simulateInvestment has recorded
    active,                     \* the invocation whose frame is in execution, 0 if none
    invocations,                \* per invocation: its status, its saved frame, what it returned
    drawLog,                    \* per draw of the random source: the invocation that drew
    sharpeCall, weightsResult,  \* a call of calculateBasketWeights and what it returned
    q3AllocResult               \* what calculateAllocation of q3.ts returned for allocCall

params == <<initialInvestment, monthlyDeposit, stocks, bankAccount,
            targetOverallVolatility, durationInMonths, scenario, correlation>>
simState == <<m, history, currentStockHoldings, currentBankHolding,
              cumulativeCapitalInvested, reallocations>>
scenarioState == <<samples, scenarioMeans>>
investmentState == <<investmentCall, portfolioValue, totalAmountInvested,
                     actualMonthlyReturn, results>>
invocationState == <<active, invocations, drawLog>>
engineState == <<sharpeCall, weightsResult, q3AllocResult>>
vars == <<pc, params, simState, allocCall, allocResult, scenarioState, investmentState,
          invocationState, engineState>>

\* Object.values(holdings).reduce((a, b) => a + b, 0)
RECURSIVE SumValues(_)
SumValues(holdings) ==
    IF DOMAIN holdings = {} THEN Zero
    ELSE LET k == CHOOSE k \in DOMAIN holdings : TRUE
         IN  Add(holdings[k], SumValues([j \in DOMAIN holdings \ {k} |-> holdings[j]]))

\* stocks.forEach(s => currentStockHoldings[s.name] = 0)
ZeroHoldings(stks) == [name \in {stks[i].name : i \in 1..Len(stks)} |-> Zero]

\* alloc.stocks.forEach(sAlloc => { holdings[sAlloc.name] = sAlloc.amount; })
ApplyAllocation(holdings, allocStocks) ==
    [name \in DOMAIN holdings |->
        LET hits == {i \in 1..Len(allocStocks) : allocStocks[i].name = name}
        IN  IF hits = {} THEN holdings[name]
            ELSE allocStocks[CHOOSE i \in hits : \A j \in hits : j <= i].amount]

\* x || 0
OrZero(x) == IF IsNaN(x) THEN Zero ELSE x

\* The BEST scenario adds the random factor with its sign.
ActualMonthlyReturnSignedBest(stock, scen, shock) ==
    LET monthlyExpectedReturn == Div(stock.geometricMean, Twelve)
        raw == CASE scen = "BEST" ->
                      Add(Mul(monthlyExpectedReturn, BEST_CASE_RETURN_MULTIPLIER),
                          Mul(shock, Mul(stock.volatility, BEST_CASE_VOL_MULTIPLIER)))
                 [] scen = "WORST" ->
                      Add(Add(Mul(monthlyExpectedReturn, WORST_CASE_RETURN_MULTIPLIER),
                              WORST_CASE_ADDITIONAL_NEGATIVE_BIAS),
                          Mul(shock, Mul(stock.volatility, WORST_CASE_VOL_MULTIPLIER)))
                 [] OTHER ->
                      Add(monthlyExpectedReturn, Mul(shock, stock.volatility))
    IN  MathMax(<<-1, 1>>, raw)

\* The return applied to one stock in one month.  The random factor z of the
\* code is represented by shock = z / sqrt(12), so that the code's product
\* z * (volatility / sqrt(12)) is shock * volatility, exactly.
ActualMonthlyReturn(stock, scen, shock) ==
    LET monthlyExpectedReturn == Div(stock.geometricMean, Twelve)
        raw == CASE scen = "BEST" ->
                      Add(Mul(monthlyExpectedReturn, BEST_CASE_RETURN_MULTIPLIER),
                          Mul(MathAbs(shock), Mul(stock.volatility, BEST_CASE_VOL_MULTIPLIER)))
                 [] scen = "WORST" ->
                      Add(Add(Mul(monthlyExpectedReturn, WORST_CASE_RETURN_MULTIPLIER),
                              WORST_CASE_ADDITIONAL_NEGATIVE_BIAS),
                          Mul(shock, Mul(stock.volatility, WORST_CASE_VOL_MULTIPLIER)))
                 [] OTHER ->
                      Add(monthlyExpectedReturn, Mul(shock, stock.volatility))
    IN  MathMax(<<-1, 1>>, raw)

\* for (const stock of stocks) grownStockHoldings[stock.name] = ...
GrownStockHoldings(holdings, stks, scen, shocks) ==
    [name \in {stks[i].name : i \in 1..Len(stks)} |->
        LET hits == {i \in 1..Len(stks) : stks[i].name = name}
            i == CHOOSE i \in hits : \A j \in hits : j <= i
        IN  Mul(OrZero(holdings[name]),
                Add(One, ActualMonthlyReturn(stks[i], scen, shocks[i])))]

\* Object.keys(holdings).forEach(key => holdings[key] = Math.max(0, holdings[key]))
ClampHoldings(holdings) == [name \in DOMAIN holdings |-> MathMax(Zero, holdings[name])]

----------------------------------------------------------------------------
(* The inputs the model explores                                           *)

MaxMonths == 2

Stock(name, mean, vol) == [name |-> name, geometricMean |-> mean, volatility |-> vol]
Bank(rate) == [name |-> "Savings", interestRate |-> rate]

HighMean == Q(9, 5)
LowMean == Q(-6, 5)

\* Lists of at most three stocks: none, one, two with Sharpe ratios of equal
\* or of mixed sign, none attractive, three, a repeated name, a volatility
\* of zero, an empty name.
StockLists ==
    { <<>>,
      <<Stock("G", HighMean, Q(3, 4))>>,
      <<Stock("G", HighMean, Q(3, 4)), Stock("H", HighMean, Q(3, 4))>>,
      <<Stock("G", HighMean, Q(3, 4)), Stock("D", LowMean, Q(3, 4))>>,
      <<Stock("D", LowMean, Q(3, 4)), Stock("E", LowMean, Q(3, 4))>>,
      <<Stock("F", HighMean, Q(1, 2)), Stock("A", HighMean, One), Stock("B", HighMean, One)>>,
      <<Stock("G", HighMean, Q(3, 4)), Stock("G", HighMean, Q(3, 4))>>,
      <<Stock("Z", HighMean, Zero)>>,
      <<Stock("", HighMean, One)>> }

Amounts == {<<-1, 1>>, Zero, One}
Deposits == {<<-1, 1>>, Zero, Q(1, 4)}
Durations == {<<-1, 1>>, Q(1, 2)} \cup {<<k, 1>> : k \in 0..MaxMonths}
Scenarios == {"BEST", "AVERAGE", "WORST"}
InterestRates == {Zero, Q(3, 40), Q(12, 5)}
TargetVolatilities == {<<-1, 1>>, Zero, Q(3, 8), Q(3, 2)}
Correlations == {<<-1, 1>>, One, <<2, 1>>}

\* The random factor divided by sqrt(12); the code clips the factor to
\* [-3.5, 3.5], which contains sqrt(12) * s for every s below.
Shocks == {<<-1, 1>>, Zero, One}

----------------------------------------------------------------------------
(* The state machine                                                       *)

NoCall == [made |-> FALSE]

Init ==
    /\ pc = "idle"
    /\ initialInvestment = Zero /\ monthlyDeposit = Zero /\ stocks = <<>>
    /\ bankAccount = Bank(Zero) /\ targetOverallVolatility = Zero
    /\ durationInMonths = Zero /\ scenario = "AVERAGE" /\ correlation = DEFAULT_CORRELATION
    /\ m = 0
    /\ history = <<>>
    /\ currentStockHoldings = <<>>
    /\ currentBankHolding = Zero
    /\ cumulativeCapitalInvested = Zero
    /\ reallocations = <<>>
    /\ active = 0 /\ invocations = <<>> /\ drawLog = <<>>
    /\ allocCall = NoCall
    /\ allocResult = NoCall
    /\ samples = <<>>
    /\ scenarioMeans = NoCall
    /\ investmentCall = NoCall
    /\ portfolioValue = Zero /\ totalAmountInvested = Zero /\ actualMonthlyReturn = Zero
    /\ results = <<>>
    /\ sharpeCall = NoCall /\ weightsResult = NoCall /\ q3AllocResult = NoCall

\* The check of an empty stock list against a positive target is left out.
TopLevelCheckWithoutStocks(initial, deposit, stks, target, duration) ==
    IF Lt(initial, Zero) THEN "NegativeInitialInvestment"
    ELSE IF Lt(deposit, Zero) THEN "NegativeMonthlyDeposit"
    ELSE IF Lt(duration, Zero) \/ ~IsInteger(duration) THEN "InvalidDuration"
    ELSE "ok"

\* The error the top-level checks of simulateInvestmentStrategy throw, "ok" if none.
TopLevelCheck(initial, deposit, stks, target, duration) ==
    IF Lt(initial, Zero) THEN "NegativeInitialInvestment"
    ELSE IF Lt(deposit, Zero) THEN "NegativeMonthlyDeposit"
    ELSE IF Lt(duration, Zero) \/ ~IsInteger(duration) THEN "InvalidDuration"
    ELSE IF Len(stks) = 0 /\ Gt(target, Zero) THEN "NoStocksForTargetVolatility"
    ELSE "ok"

\* cumulativeCapitalInvested after the month-0 block.
InitialCumulative(initial) == IF Gt(initial, Zero) THEN initial ELSE Zero

\* The deposit is left out of the running sum.
NextCumulativeWithoutDeposit(cumulative, deposit) == cumulative

\* cumulativeCapitalInvested += monthlyDeposit
NextCumulative(cumulative, deposit) == Add(cumulative, deposit)

\* The loop stops one month early.
LoopContinuesStrictly(month, duration) == Lt(<<month, 1>>, duration)

\* The loop condition m <= durationInMonths.
LoopContinues(month, duration) == Le(<<month, 1>>, duration)

\* The call is made and one of the top-level checks throws.
CallThrows ==
    /\ pc = "idle"
    /\ \E initial \in Amounts, deposit \in Deposits, stks \in StockLists,
          rate \in InterestRates, target \in TargetVolatilities,
          duration \in Durations, scen \in Scenarios, corr \in Correlations :
        /\ TopLevelCheck(initial, deposit, stks, target, duration) # "ok"
        /\ initialInvestment' = initial /\ monthlyDeposit' = deposit /\ stocks' = stks
        /\ bankAccount' = Bank(rate) /\ targetOverallVolatility' = target
        /\ durationInMonths' = duration /\ scenario' = scen /\ correlation' = corr
    /\ pc' = "threw"
    /\ UNCHANGED <<engineState, invocationState,
                   simState, allocCall, allocResult, scenarioState, investmentState>>

\* Nothing is placed in the bank when the allocation of month 0 fails.
InitialBankHoldingLostOnFailure(initial, initialAlloc) ==
    IF Gt(initial, Zero)
    THEN (IF initialAlloc.threw THEN Zero ELSE initialAlloc.bankAllocation.amount)
    ELSE Zero

\* currentBankHolding after the month-0 block.
InitialBankHolding(initial, initialAlloc) ==
    IF Gt(initial, Zero)
    THEN (IF initialAlloc.threw THEN initial ELSE initialAlloc.bankAllocation.amount)
    ELSE Zero

\* The call is made, passes the checks, and month 0 is set up and recorded.
CallMonth0With(initial, deposit, stks, rate, target, duration, scen, corr) ==
        \E initialAlloc \in {calculateAllocation(initial, stks, Bank(rate), target, corr)} :
        \E holdings \in {IF Gt(initial, Zero) /\ ~initialAlloc.threw
                         THEN ApplyAllocation(ZeroHoldings(stks), initialAlloc.stocks)
                         ELSE ZeroHoldings(stks)} :
        \E bank \in {InitialBankHolding(initial, initialAlloc)} :
        \E cumulative \in {InitialCumulative(initial)} :
            /\ TopLevelCheck(initial, deposit, stks, target, duration) = "ok"
            /\ initialInvestment' = initial /\ monthlyDeposit' = deposit /\ stocks' = stks
            /\ bankAccount' = Bank(rate) /\ targetOverallVolatility' = target
            /\ durationInMonths' = duration /\ scenario' = scen /\ correlation' = corr
            /\ currentStockHoldings' = holdings
            /\ currentBankHolding' = bank
            /\ cumulativeCapitalInvested' = cumulative
            /\ history' = <<[month |-> 0,
                            stockValues |-> holdings,
                            bankValue |-> bank,
                            totalPortfolioValue |-> Add(SumValues(holdings), bank),
                            totalCapitalInvested |-> cumulative]>>
            /\ pc' = IF Eq(duration, Zero) THEN "returned" ELSE "loop"

CallMonth0 ==
    /\ pc = "idle"
    /\ \E initial \in Amounts, deposit \in Deposits, stks \in StockLists,
          rate \in InterestRates, target \in TargetVolatilities,
          duration \in Durations, scen \in Scenarios, corr \in Correlations :
        CallMonth0With(initial, deposit, stks, rate, target, duration, scen, corr)
    /\ m' = 1
    /\ UNCHANGED <<engineState, invocationState,
                   reallocations, allocCall, allocResult, scenarioState,
                   investmentState>>

\* The allocation engine is called for a total of zero as well.
InvokesAllocationOnZero(totalCapitalForReallocation) ==
    Ge(totalCapitalForReallocation, Zero)

\* if (totalCapitalForReallocation > 0): the allocation engine is called.
InvokesAllocation(totalCapitalForReallocation) ==
    Gt(totalCapitalForReallocation, Zero)

\* The branch of step 4 taken in a month.
Branch(totalCapitalForReallocation, newAlloc) ==
    IF InvokesAllocation(totalCapitalForReallocation)
    THEN (IF newAlloc.threw THEN "fallback" ELSE "rebalance")
    ELSE "wipeout"

\* The deposit is left out of the amount that is reallocated.
TotalCapitalWithoutDeposit(valueAfterGrowth, deposit) == valueAfterGrowth

\* const totalCapitalForReallocation = valueAfterGrowth + monthlyDeposit
TotalCapitalForReallocation(valueAfterGrowth, deposit) == Add(valueAfterGrowth, deposit)

\* The grown stocks are taken for the bank holding.
FallbackBankHoldingOfStocks(totalCapitalForReallocation, grownStockHoldings) ==
    SumValues(grownStockHoldings)

\* currentBankHolding = totalCapitalForReallocation - sumOfGrownStocks
FallbackBankHolding(totalCapitalForReallocation, grownStockHoldings) ==
    Sub(totalCapitalForReallocation, SumValues(grownStockHoldings))

\* Interest is earned on a positive balance only; a debt does not grow.
GrownBankHoldingNoInterestOnDebt(bankHolding, interestRate) ==
    IF Lt(bankHolding, Zero) THEN bankHolding
    ELSE Mul(bankHolding, Add(One, Div(interestRate, Twelve)))

\* grownBankHolding: the same monthly rate for a balance and for a debt.
GrownBankHolding(bankHolding, interestRate) ==
    Mul(bankHolding, Add(One, Div(interestRate, Twelve)))

\* The body of the monthly loop when the random factors drawn are the shocks.
MonthStepWith(shocks) ==
       \E grownStockHoldings \in
              {GrownStockHoldings(currentStockHoldings, stocks, scenario, shocks)} :
       \E grownBankHolding \in
              {GrownBankHolding(currentBankHolding, bankAccount.interestRate)} :
       \E valueAfterGrowth \in {Add(SumValues(grownStockHoldings), grownBankHolding)} :
       \E totalCapitalForReallocation \in
              {TotalCapitalForReallocation(valueAfterGrowth, monthlyDeposit)} :
       \E newAlloc \in
              {IF InvokesAllocation(totalCapitalForReallocation)
               THEN calculateAllocation(totalCapitalForReallocation, stocks, bankAccount,
                                        targetOverallVolatility, correlation)
               ELSE NoCall} :
       \E branch \in {Branch(totalCapitalForReallocation, newAlloc)} :
       \E holdings \in
              {CASE branch = "rebalance" ->
                        ApplyAllocation(currentStockHoldings, newAlloc.stocks)
                 [] branch = "fallback" -> grownStockHoldings
                 [] OTHER -> ZeroHoldings(stocks)} :
       \E bank \in
              {CASE branch = "rebalance" -> newAlloc.bankAllocation.amount
                 [] branch = "fallback" ->
                        FallbackBankHolding(totalCapitalForReallocation, grownStockHoldings)
                 [] OTHER -> totalCapitalForReallocation} :
       \E clamped \in {ClampHoldings(holdings)} :
       \E currentTotalValue \in {Add(SumValues(clamped), bank)} :
       \E cumulative \in {NextCumulative(cumulativeCapitalInvested, monthlyDeposit)} :
            /\ currentStockHoldings' = clamped
            /\ currentBankHolding' = bank
            /\ cumulativeCapitalInvested' = cumulative
            /\ reallocations' = Append(reallocations,
                    [grownStockHoldings |-> grownStockHoldings,
                     grownBankHolding |-> grownBankHolding,
                     total |-> totalCapitalForReallocation,
                     invoked |-> newAlloc # NoCall,
                     branch |-> branch])
            /\ history' = Append(history,
                    [month |-> m,
                     stockValues |-> clamped,
                     bankValue |-> ToFixed2(bank),
                     totalPortfolioValue |-> ToFixed2(currentTotalValue),
                     totalCapitalInvested |-> ToFixed2(cumulative)])

\* One iteration of the monthly loop.
MonthStep ==
    /\ pc = "loop"
    /\ LoopContinues(m, durationInMonths)
    /\ \E shocks \in [1..Len(stocks) -> Shocks] : MonthStepWith(shocks)
    /\ m' = m + 1
    /\ UNCHANGED <<engineState, invocationState,
                   pc, params, allocCall, allocResult, scenarioState, investmentState>>

\* The loop condition fails and the history is returned.
Return ==
    /\ pc = "loop"
    /\ ~LoopContinues(m, durationInMonths)
    /\ pc' = "returned"
    /\ UNCHANGED <<engineState, invocationState,
                   params, simState, allocCall, allocResult, scenarioState,
                   investmentState>>

----------------------------------------------------------------------------
(* StockMarketSimulator.simulateInvestment                                 *)

strategyLocals == <<history, currentStockHoldings, currentBankHolding,
                    cumulativeCapitalInvested, reallocations>>

MaxInvestmentMonths == 2

InvestmentReturns == {<<-24, 1>>, LowMean, Zero, Q(3, 5)}
InvestmentVolatilities == {<<-1, 1>>, Zero, Q(4, 5)}
InvestmentDurations == {<<-1, 1>>, Q(1, 2)} \cup {<<k, 1>> : k \in 0..MaxInvestmentMonths}

\* The error the input validation of simulateInvestment throws, "ok" if none.
InvestmentCheck(call) ==
    IF Lt(call.initialInvestmentAmount, Zero) THEN "NegativeInitialInvestment"
    ELSE IF Lt(call.monthlyInvestmentAmount, Zero) THEN "NegativeMonthlyInvestment"
    ELSE IF Lt(call.annualVolatility, Zero) THEN "NegativeVolatility"
    ELSE IF Lt(call.investmentDurationInMonths, Zero)
            \/ ~IsInteger(call.investmentDurationInMonths) THEN "InvalidDuration"
    ELSE "ok"

\* The random factor is added without being scaled by the volatility.
InvestmentReturnUnscaledShock(call, shock) ==
    LET monthlyExpectedReturn == Div(call.annualExpectedReturn, Twelve)
        raw == CASE call.scenario = "BEST" ->
                      Add(Mul(monthlyExpectedReturn, BEST_CASE_RETURN_MULTIPLIER),
                          Mul(MathAbs(shock), BEST_CASE_VOL_MULTIPLIER))
                 [] call.scenario = "WORST" ->
                      Add(Add(Mul(monthlyExpectedReturn, WORST_CASE_RETURN_MULTIPLIER),
                              WORST_CASE_ADDITIONAL_NEGATIVE_BIAS),
                          Mul(shock, WORST_CASE_VOL_MULTIPLIER))
                 [] OTHER -> Add(monthlyExpectedReturn, shock)
    IN  MathMax(<<-1, 1>>, raw)

\* actualMonthlyReturn of one month of simulateInvestment; as in
\* ActualMonthlyReturn the shock is the random factor divided by sqrt(12).
\* StockMarketSimulator declares the same five scenario constants.
InvestmentReturn(call, shock) ==
    LET monthlyExpectedReturn == Div(call.annualExpectedReturn, Twelve)
        raw == CASE call.scenario = "BEST" ->
                      Add(Mul(monthlyExpectedReturn, BEST_CASE_RETURN_MULTIPLIER),
                          Mul(MathAbs(shock),
                              Mul(call.annualVolatility, BEST_CASE_VOL_MULTIPLIER)))
                 [] call.scenario = "WORST" ->
                      Add(Add(Mul(monthlyExpectedReturn, WORST_CASE_RETURN_MULTIPLIER),
                              WORST_CASE_ADDITIONAL_NEGATIVE_BIAS),
                          Mul(shock, Mul(call.annualVolatility, WORST_CASE_VOL_MULTIPLIER)))
                 [] OTHER -> Add(monthlyExpectedReturn, Mul(shock, call.annualVolatility))
    IN  MathMax(<<-1, 1>>, raw)

InvestmentCalls ==
    [initialInvestmentAmount : Amounts, monthlyInvestmentAmount : Deposits,
     annualExpectedReturn : InvestmentReturns, annualVolatility : InvestmentVolatilities,
     investmentDurationInMonths : InvestmentDurations, scenario : Scenarios,
     made : {TRUE}]

\* simulateInvestment is called and its input validation throws.
SimulateInvestmentThrows ==
    /\ pc = "idle"
    /\ \E call \in InvestmentCalls :
          /\ InvestmentCheck(call) # "ok"
          /\ investmentCall' = call
    /\ pc' = "investmentThrew"
    /\ UNCHANGED <<engineState, invocationState,
                   params, simState, allocCall, allocResult, scenarioState,
                   portfolioValue, totalAmountInvested, actualMonthlyReturn, results>>

\* simulateInvestment is called, passes the validation and records month 0.
SimulateInvestmentMonth0 ==
    /\ pc = "idle"
    /\ \E call \in InvestmentCalls :
          /\ InvestmentCheck(call) = "ok"
          /\ investmentCall' = call
          /\ portfolioValue' = call.initialInvestmentAmount
          /\ totalAmountInvested' = call.initialInvestmentAmount
          /\ results' = <<[month |-> 0,
                          portfolioValue |-> ToFixed2(call.initialInvestmentAmount),
                          totalAmountInvested |-> ToFixed2(call.initialInvestmentAmount),
                          monthlyReturnApplied |-> Zero]>>
          /\ pc' = IF Eq(call.investmentDurationInMonths, Zero)
                   THEN "investmentReturned" ELSE "investing"
    /\ m' = 1
    /\ UNCHANGED <<engineState, invocationState,
                   params, strategyLocals, allocCall, allocResult, scenarioState,
                   actualMonthlyReturn>>

\* The body of the loop of simulateInvestment when the random factor drawn is the shock.
SimulateInvestmentMonthWith(shock) ==
    \E deposited \in {Add(portfolioValue, investmentCall.monthlyInvestmentAmount)} :
    \E invested \in {Add(totalAmountInvested, investmentCall.monthlyInvestmentAmount)} :
    \E return \in {InvestmentReturn(investmentCall, shock)} :
    \E grown \in {MathMax(Zero, Add(deposited, Mul(deposited, return)))} :
        /\ portfolioValue' = grown
        /\ totalAmountInvested' = invested
        /\ actualMonthlyReturn' = return
        /\ results' = Append(results,
                [month |-> m,
                 portfolioValue |-> ToFixed2(grown),
                 totalAmountInvested |-> ToFixed2(invested),
                 monthlyReturnApplied |-> ToFixed4(return)])

\* One iteration of the loop of simulateInvestment.
SimulateInvestmentMonth ==
    /\ pc = "investing"
    /\ LoopContinues(m, investmentCall.investmentDurationInMonths)
    /\ \E shock \in Shocks : SimulateInvestmentMonthWith(shock)
    /\ m' = m + 1
    /\ UNCHANGED <<engineState, invocationState,
                   pc, params, strategyLocals, allocCall, allocResult, scenarioState,
                   investmentCall>>

\* The loop of simulateInvestment ends and the results are returned.
SimulateInvestmentReturn ==
    /\ pc = "investing"
    /\ ~LoopContinues(m, investmentCall.investmentDurationInMonths)
    /\ pc' = "investmentReturned"
    /\ UNCHANGED <<engineState, invocationState,
                   params, simState, allocCall, allocResult, scenarioState,
                   investmentState>>

----------------------------------------------------------------------------
(* Either simulator is called once                                         *)

Next ==
    \/ CallThrows \/ CallMonth0 \/ MonthStep \/ Return
    \/ SimulateInvestmentThrows \/ SimulateInvestmentMonth0
    \/ SimulateInvestmentMonth \/ SimulateInvestmentReturn

Spec == Init /\ [][Next]_vars

----------------------------------------------------------------------------
(* Direct calls of PortfolioCalculator.calculateAllocation                 *)

AllocAmounts == {<<-1, 1>>, Zero, One, Hundred}
AllocStockLists ==
    StockLists \cup
    { <<Stock("P", Q(3, 40), One), Stock("R", Q(3, 40), One)>>,
      <<Stock("S", Q(3, 10), Q(1, 5)), Stock("T", HighMean, Q(1, 2))>>,
      <<Stock("A", HighMean, One), Stock("B", HighMean, One), Stock("C", HighMean, One)>>,
      <<Stock("S", Q(3, 10), Q(1, 5)), Stock("Z", HighMean, <<-1, 1>>)>> }
AllocInterestRates ==
    {Zero, Q(9, 1000), MIN_INTEREST_RATE, Q(3, 40), MAX_INTEREST_RATE, Q(77, 1000), Q(12, 5)}
AllocCorrelations == {<<-2, 1>>, <<-1, 1>>, Q(-3, 5), Zero, DEFAULT_CORRELATION, One, <<2, 1>>}

InitAlloc ==
    /\ pc = "alloc"
    /\ initialInvestment = Zero /\ monthlyDeposit = Zero /\ stocks = <<>>
    /\ bankAccount = Bank(Zero) /\ targetOverallVolatility = Zero
    /\ durationInMonths = Zero /\ scenario = "AVERAGE" /\ correlation = DEFAULT_CORRELATION
    /\ m = 0
    /\ history = <<>>
    /\ currentStockHoldings = <<>>
    /\ currentBankHolding = Zero
    /\ cumulativeCapitalInvested = Zero
    /\ reallocations = <<>>
    /\ active = 0 /\ invocations = <<>> /\ drawLog = <<>>
    /\ \E totalAmount \in AllocAmounts, stks \in AllocStockLists, rate \in AllocInterestRates,
          target \in TargetVolatilities, corr \in AllocCorrelations :
        allocCall = [made |-> TRUE, totalAmount |-> totalAmount, stocks |-> stks,
                     bankAccount |-> Bank(rate), targetPortfolioVolatility |-> target,
                     correlation |-> corr]
    /\ allocResult = NoCall
    /\ samples = <<>>
    /\ scenarioMeans = NoCall
    /\ investmentCall = NoCall
    /\ portfolioValue = Zero /\ totalAmountInvested = Zero /\ actualMonthlyReturn = Zero
    /\ results = <<>>
    /\ sharpeCall = NoCall /\ weightsResult = NoCall /\ q3AllocResult = NoCall

AllocOutcome ==
    calculateAllocation(allocCall.totalAmount, allocCall.stocks, allocCall.bankAccount,
                        allocCall.targetPortfolioVolatility, allocCall.correlation)

\* calculateAllocation returns a result.
AllocReturns ==
    /\ pc = "alloc"
    /\ ~AllocOutcome.threw
    /\ allocResult' = AllocOutcome
    /\ pc' = "allocReturned"
    /\ UNCHANGED <<engineState, invocationState,
                   params, simState, allocCall, scenarioState, investmentState>>

\* calculateAllocation throws.
AllocThrows ==
    /\ pc = "alloc"
    /\ AllocOutcome.threw
    /\ allocResult' = AllocOutcome
    /\ pc' = "allocThrew"
    /\ UNCHANGED <<engineState, invocationState,
                   params, simState, allocCall, scenarioState, investmentState>>

NextAlloc == AllocReturns \/ AllocThrows

SpecAlloc == InitAlloc /\ [][NextAlloc]_vars

----------------------------------------------------------------------------
(* The monthly return of one asset under the three scenarios               *)

SampleMeans == {Q(-12, 5), LowMean, Zero, Q(3, 40), Q(3, 5), HighMean}
SampleVolatilities == {Q(1, 100), Q(1, 5), Q(3, 4), <<2, 1>>}

\* Symmetric sequences of random factors, each divided by sqrt(12).
SampleSequences ==
    { << <<-1, 1>>, One >>,
      << Q(-1, 2), Q(1, 2) >>,
      << <<-1, 1>>, Q(-1, 2), Zero, Q(1, 2), One >> }

InitSamples ==
    /\ pc = "sampling"
    /\ initialInvestment = Zero /\ monthlyDeposit = Zero
    /\ \E mean \in SampleMeans, vol \in SampleVolatilities : stocks = <<Stock("X", mean, vol)>>
    /\ bankAccount = Bank(Zero) /\ targetOverallVolatility = Zero
    /\ durationInMonths = Zero /\ scenario = "AVERAGE" /\ correlation = DEFAULT_CORRELATION
    /\ m = 0
    /\ history = <<>>
    /\ currentStockHoldings = <<>>
    /\ currentBankHolding = Zero
    /\ cumulativeCapitalInvested = Zero
    /\ reallocations = <<>>
    /\ active = 0 /\ invocations = <<>> /\ drawLog = <<>>
    /\ allocCall = NoCall
    /\ allocResult = NoCall
    /\ samples \in SampleSequences
    /\ scenarioMeans = NoCall
    /\ investmentCall = NoCall
    /\ portfolioValue = Zero /\ totalAmountInvested = Zero /\ actualMonthlyReturn = Zero
    /\ results = <<>>
    /\ sharpeCall = NoCall /\ weightsResult = NoCall /\ q3AllocResult = NoCall

\* The mean over the random factors of the return applied to the stock.
MeanReturn(stock, scen, factors) ==
    Div(SumSeq([i \in 1..Len(factors) |-> ActualMonthlyReturn(stock, scen, factors[i])]),
        <<Len(factors), 1>>)

\* The return of the stock is computed for every random factor and scenario.
SampleReturns ==
    /\ pc = "sampling"
    /\ scenarioMeans' = [scen \in Scenarios |-> MeanReturn(stocks[1], scen, samples)]
    /\ pc' = "sampled"
    /\ UNCHANGED <<engineState, invocationState,
                   params, simState, allocCall, allocResult, samples, investmentState>>

NextSamples == SampleReturns

SpecSamples == InitSamples /\ [][NextSamples]_vars

----------------------------------------------------------------------------
(* Two invocations of simulateInvestmentStrategy on one instance           *)

Invocations == {1, 2}

\* What the two invocations are called with: one stock or two, one month or
\* two, so that a run draws between one and four random factors.
TwoRunStockLists ==
    { <<Stock("G", HighMean, Q(3, 4))>>,
      <<Stock("G", HighMean, Q(3, 4)), Stock("H", HighMean, Q(3, 4))>> }
TwoRunDurations == {One, <<2, 1>>}

\* An await inside the monthly loop.
SuspensionPointInLoop == pc = "loop"

\* The method is synchronous: it has no await and no yield, so the frame in
\* execution is never at a point where another call can be started.
SuspensionPoint == FALSE

\* The locals of the frame in execution.
Frame ==
    [pc |-> pc, initialInvestment |-> initialInvestment, monthlyDeposit |-> monthlyDeposit,
     stocks |-> stocks, bankAccount |-> bankAccount,
     targetOverallVolatility |-> targetOverallVolatility,
     durationInMonths |-> durationInMonths, scenario |-> scenario,
     correlation |-> correlation, m |-> m, history |-> history,
     currentStockHoldings |-> currentStockHoldings,
     currentBankHolding |-> currentBankHolding,
     cumulativeCapitalInvested |-> cumulativeCapitalInvested,
     reallocations |-> reallocations]

\* No call is in execution.
NoFrame ==
    [pc |-> "idle", initialInvestment |-> Zero, monthlyDeposit |-> Zero,
     stocks |-> <<>>, bankAccount |-> Bank(Zero), targetOverallVolatility |-> Zero,
     durationInMonths |-> Zero, scenario |-> "AVERAGE",
     correlation |-> DEFAULT_CORRELATION, m |-> 0, history |-> <<>>,
     currentStockHoldings |-> <<>>, currentBankHolding |-> Zero,
     cumulativeCapitalInvested |-> Zero, reallocations |-> <<>>]

InitTwoRuns ==
    /\ pc = "idle"
    /\ initialInvestment = Zero /\ monthlyDeposit = Zero /\ stocks = <<>>
    /\ bankAccount = Bank(Zero) /\ targetOverallVolatility = Zero
    /\ durationInMonths = Zero /\ scenario = "AVERAGE" /\ correlation = DEFAULT_CORRELATION
    /\ m = 0
    /\ history = <<>>
    /\ currentStockHoldings = <<>>
    /\ currentBankHolding = Zero
    /\ cumulativeCapitalInvested = Zero
    /\ reallocations = <<>>
    /\ allocCall = NoCall
    /\ allocResult = NoCall
    /\ samples = <<>>
    /\ scenarioMeans = NoCall
    /\ investmentCall = NoCall
    /\ portfolioValue = Zero
    /\ totalAmountInvested = Zero
    /\ actualMonthlyReturn = Zero
    /\ results = <<>>
    /\ sharpeCall = NoCall /\ weightsResult = NoCall /\ q3AllocResult = NoCall
    /\ active = 0
    /\ invocations = [i \in Invocations |-> [status |-> "pending"]]
    /\ drawLog = <<>>

\* A call is made: it gets locals of its own, and month 0 is set up and
\* recorded.  If another frame is in execution, it is suspended.
InvocationStarts ==
    /\ \E i \in Invocations :
        /\ invocations[i].status = "pending"
        /\ active = 0 \/ SuspensionPoint
        /\ \E stks \in TwoRunStockLists, duration \in TwoRunDurations :
              CallMonth0With(One, Zero, stks, Q(3, 40), Q(3, 8), duration, "AVERAGE", One)
        /\ invocations' = [j \in Invocations |->
                             IF j = i THEN [status |-> "running"]
                             ELSE IF j = active THEN [status |-> "suspended", frame |-> Frame]
                             ELSE invocations[j]]
        /\ active' = i
    /\ m' = 1
    /\ reallocations' = <<>>
    /\ UNCHANGED <<engineState, drawLog, allocCall, allocResult, scenarioState, investmentState>>

\* One iteration of the monthly loop of the invocation in execution: one
\* draw of the random source per stock.
InvocationMonth ==
    /\ active # 0
    /\ pc = "loop"
    /\ LoopContinues(m, durationInMonths)
    /\ \E shocks \in [1..Len(stocks) -> Shocks] : MonthStepWith(shocks)
    /\ m' = m + 1
    /\ drawLog' = drawLog \o [k \in 1..Len(stocks) |-> active]
    /\ UNCHANGED <<engineState,
                   pc, params, active, invocations, allocCall, allocResult, scenarioState,
                   investmentState>>

\* The loop condition fails and the history is returned to the caller; a
\* suspended frame, if there is one, is in execution again.
InvocationReturns ==
    /\ active # 0
    /\ pc = "loop"
    /\ ~LoopContinues(m, durationInMonths)
    /\ \E suspended \in {{j \in Invocations : invocations[j].status = "suspended"}} :
       \E next \in {IF suspended = {} THEN 0 ELSE CHOOSE j \in suspended : TRUE} :
       \E frame \in {IF next = 0 THEN NoFrame ELSE invocations[next].frame} :
            /\ invocations' = [j \in Invocations |->
                                 IF j = active THEN [status |-> "returned", history |-> history]
                                 ELSE IF j = next THEN [status |-> "running"]
                                 ELSE invocations[j]]
            /\ active' = next
            /\ pc' = frame.pc
            /\ initialInvestment' = frame.initialInvestment
            /\ monthlyDeposit' = frame.monthlyDeposit
            /\ stocks' = frame.stocks
            /\ bankAccount' = frame.bankAccount
            /\ targetOverallVolatility' = frame.targetOverallVolatility
            /\ durationInMonths' = frame.durationInMonths
            /\ scenario' = frame.scenario
            /\ correlation' = frame.correlation
            /\ m' = frame.m
            /\ history' = frame.history
            /\ currentStockHoldings' = frame.currentStockHoldings
            /\ currentBankHolding' = frame.currentBankHolding
            /\ cumulativeCapitalInvested' = frame.cumulativeCapitalInvested
            /\ reallocations' = frame.reallocations
    /\ UNCHANGED <<engineState, drawLog, allocCall, allocResult, scenarioState, investmentState>>

NextTwoRuns == InvocationStarts \/ InvocationMonth \/ InvocationReturns

SpecTwoRuns == InitTwoRuns /\ [][NextTwoRuns]_vars

----------------------------------------------------------------------------
(* Direct calls of PortfolioCalculator.calculateBasketWeights              *)

MaxRatios == 3

\* Sharpe ratios of stocks that validateInputs accepts are finite: the
\* volatility they are divided by is positive.
SharpeValues == {<<-2, 1>>, Q(-1, 2), Zero, Q(1, 3), One, <<3, 1>>}
SharpeLists == UNION {[1..n -> SharpeValues] : n \in 1..MaxRatios}

InitWeights ==
    /\ pc = "weights"
    /\ initialInvestment = Zero /\ monthlyDeposit = Zero /\ stocks = <<>>
    /\ bankAccount = Bank(Zero) /\ targetOverallVolatility = Zero
    /\ durationInMonths = Zero /\ scenario = "AVERAGE" /\ correlation = DEFAULT_CORRELATION
    /\ m = 0
    /\ history = <<>>
    /\ currentStockHoldings = <<>>
    /\ currentBankHolding = Zero
    /\ cumulativeCapitalInvested = Zero
    /\ reallocations = <<>>
    /\ active = 0 /\ invocations = <<>> /\ drawLog = <<>>
    /\ allocCall = NoCall
    /\ allocResult = NoCall
    /\ samples = <<>>
    /\ scenarioMeans = NoCall
    /\ investmentCall = NoCall
    /\ portfolioValue = Zero /\ totalAmountInvested = Zero /\ actualMonthlyReturn = Zero
    /\ results = <<>>
    /\ \E ratios \in SharpeLists : sharpeCall = [made |-> TRUE, stockSharpeRatios |-> ratios]
    /\ weightsResult = NoCall
    /\ q3AllocResult = NoCall

\* calculateBasketWeights returns the weights or throws.
BasketWeightsCalled ==
    /\ pc = "weights"
    /\ weightsResult' = calculateBasketWeights(sharpeCall.stockSharpeRatios)
    /\ pc' = "weighted"
    /\ UNCHANGED <<params, simState, allocCall, allocResult, scenarioState, investmentState,
                   invocationState, sharpeCall, q3AllocResult>>

NextWeights == BasketWeightsCalled

SpecWeights == InitWeights /\ [][NextWeights]_vars

----------------------------------------------------------------------------
(* Leveraged runs of simulateInvestmentStrategy                            *)

\* One stock, or two stocks that bear the same name, and a target volatility
\* of half or of twice the basket volatility, with and without deposits; W
\* loses 70% in an AVERAGE month with a random factor of -sqrt(12).
DebtStockLists ==
    { <<Stock("G", HighMean, Q(3, 4))>>,
      <<Stock("W", Q(3, 5), Q(3, 4))>>,
      <<Stock("G", HighMean, Q(3, 4)), Stock("G", LowMean, Q(3, 4))>> }
DebtDeposits == {Zero, Q(1, 4)}
DebtTargets == {Q(3, 8), Q(3, 2)}
DebtDurations == {<<k, 1>> : k \in 0..MaxMonths}

\* The call is made with valid inputs; month 0 is set up and recorded.
DebtCallMonth0 ==
    /\ pc = "idle"
    /\ \E deposit \in DebtDeposits, stks \in DebtStockLists, target \in DebtTargets,
          duration \in DebtDurations, scen \in Scenarios :
        CallMonth0With(One, deposit, stks, Q(3, 40), target, duration, scen, One)
    /\ m' = 1
    /\ UNCHANGED <<reallocations, allocCall, allocResult, scenarioState, investmentState,
                   invocationState, engineState>>

NextDebt == DebtCallMonth0 \/ MonthStep \/ Return

SpecDebt == Init /\ [][NextDebt]_vars

----------------------------------------------------------------------------
(* The simulator of src/src/q3.ts and the two engines side by side         *)
(* The growth step of q3.ts is that of stock-market-simulator.ts, line for *)
(* line; the top-level checks, the fallback, the wipe-out branch and the   *)
(* clamp differ.                                                           *)

\* Both engines are called with the arguments of allocCall.
BothEnginesCalled ==
    /\ pc = "alloc"
    /\ allocResult' = AllocOutcome
    /\ q3AllocResult' =
          q3_calculateAllocation(allocCall.totalAmount, allocCall.stocks,
                                 allocCall.bankAccount, allocCall.targetPortfolioVolatility,
                                 allocCall.correlation)
    /\ pc' = "enginesReturned"
    /\ UNCHANGED <<params, simState, allocCall, scenarioState, investmentState,
                   invocationState, sharpeCall, weightsResult>>

NextEngines == BothEnginesCalled

SpecEngines == InitAlloc /\ [][NextEngines]_vars

\* The error the top-level checks of q3.ts throw, "ok" if none.
q3_TopLevelCheck(initial, deposit, duration) ==
    IF Lt(initial, Zero) THEN "NegativeInitialInvestment"
    ELSE IF Lt(deposit, Zero) THEN "NegativeMonthlyDeposit"
    ELSE IF Lt(duration, Zero) \/ ~IsInteger(duration) THEN "InvalidDuration"
    ELSE "ok"

Q3StockLists ==
    { <<>>,
      <<Stock("G", HighMean, Q(3, 4))>>,
      <<Stock("G", HighMean, Q(3, 4)), Stock("D", LowMean, Q(3, 4))>>,
      <<Stock("Z", HighMean, Zero)>> }
Q3InterestRates == {Zero, Q(3, 40)}
Q3MaxMonths == 1
Q3Durations == {<<-1, 1>>, Q(1, 2)} \cup {<<k, 1>> : k \in 0..Q3MaxMonths}
Q3Correlations == {<<-1, 1>>, One}

\* simulateInvestmentStrategy of q3.ts is called and a top-level check throws.
Q3CallThrows ==
    /\ pc = "idle"
    /\ \E initial \in Amounts, deposit \in Deposits, stks \in Q3StockLists,
          rate \in Q3InterestRates, target \in TargetVolatilities,
          duration \in Q3Durations, scen \in Scenarios, corr \in Q3Correlations :
        /\ q3_TopLevelCheck(initial, deposit, duration) # "ok"
        /\ initialInvestment' = initial /\ monthlyDeposit' = deposit /\ stocks' = stks
        /\ bankAccount' = Bank(rate) /\ targetOverallVolatility' = target
        /\ durationInMonths' = duration /\ scenario' = scen /\ correlation' = corr
    /\ pc' = "threw"
    /\ UNCHANGED <<simState, allocCall, allocResult, scenarioState, investmentState,
                   invocationState, engineState>>

\* The call passes the checks; month 0 is set up and recorded as it is.
Q3CallMonth0 ==
    /\ pc = "idle"
    /\ \E initial \in Amounts, deposit \in Deposits, stks \in Q3StockLists,
          rate \in Q3InterestRates, target \in TargetVolatilities,
          duration \in Q3Durations, scen \in Scenarios, corr \in Q3Correlations :
        \E initialAlloc \in {q3_calculateAllocation(initial, stks, Bank(rate), target, corr)} :
        \E holdings \in {IF Gt(initial, Zero) /\ ~initialAlloc.threw
                         THEN ApplyAllocation(ZeroHoldings(stks), initialAlloc.stocks)
                         ELSE ZeroHoldings(stks)} :
        \E bank \in {IF Gt(initial, Zero)
                     THEN (IF initialAlloc.threw THEN initial
                           ELSE initialAlloc.bankAllocation.amount)
                     ELSE Zero} :
        \E cumulative \in {IF Gt(initial, Zero) THEN initial ELSE Zero} :
            /\ q3_TopLevelCheck(initial, deposit, duration) = "ok"
            /\ initialInvestment' = initial /\ monthlyDeposit' = deposit /\ stocks' = stks
            /\ bankAccount' = Bank(rate) /\ targetOverallVolatility' = target
            /\ durationInMonths' = duration /\ scenario' = scen /\ correlation' = corr
            /\ currentStockHoldings' = holdings
            /\ currentBankHolding' = bank
            /\ cumulativeCapitalInvested' = cumulative
            /\ history' = <<[month |-> 0,
                            stockValues |-> holdings,
                            bankValue |-> bank,
                            totalPortfolioValue |-> Add(SumValues(holdings), bank),
                            totalCapitalInvested |-> cumulative]>>
            /\ pc' = IF Eq(duration, Zero) THEN "returned" ELSE "loop"
    /\ m' = 1
    /\ UNCHANGED <<reallocations, allocCall, allocResult, scenarioState, investmentState,
                   invocationState, engineState>>

\* One iteration of the monthly loop of q3.ts: a failed allocation keeps the
\* grown holdings and adds the deposit to the bank, a wiped-out portfolio is
\* set to zero, and stocks and bank are clamped at zero.
Q3MonthStep ==
    /\ pc = "loop"
    /\ LoopContinues(m, durationInMonths)
    /\ \E shocks \in [1..Len(stocks) -> Shocks] :
       \E grownStockHoldings \in
              {GrownStockHoldings(currentStockHoldings, stocks, scenario, shocks)} :
       \E grownBankHolding \in
              {Mul(currentBankHolding, Add(One, Div(bankAccount.interestRate, Twelve)))} :
       \E totalCapitalForReallocation \in
              {Add(Add(SumValues(grownStockHoldings), grownBankHolding), monthlyDeposit)} :
       \E newAlloc \in
              {IF Gt(totalCapitalForReallocation, Zero)
               THEN q3_calculateAllocation(totalCapitalForReallocation, stocks, bankAccount,
                                           targetOverallVolatility, correlation)
               ELSE NoCall} :
       \E branch \in {IF Gt(totalCapitalForReallocation, Zero)
                      THEN (IF newAlloc.threw THEN "fallback" ELSE "rebalance")
                      ELSE "wipeout"} :
       \E holdings \in
              {CASE branch = "rebalance" ->
                        ApplyAllocation(currentStockHoldings, newAlloc.stocks)
                 [] branch = "fallback" -> grownStockHoldings
                 [] OTHER -> ZeroHoldings(stocks)} :
       \E bank \in
              {CASE branch = "rebalance" -> newAlloc.bankAllocation.amount
                 [] branch = "fallback" -> Add(grownBankHolding, monthlyDeposit)
                 [] OTHER -> Zero} :
       \E clamped \in {ClampHoldings(holdings)} :
       \E clampedBank \in {MathMax(Zero, bank)} :
       \E cumulative \in {Add(cumulativeCapitalInvested, monthlyDeposit)} :
            /\ currentStockHoldings' = clamped
            /\ currentBankHolding' = clampedBank
            /\ cumulativeCapitalInvested' = cumulative
            /\ reallocations' = Append(reallocations,
                    [grownStockHoldings |-> grownStockHoldings,
                     grownBankHolding |-> grownBankHolding,
                     total |-> totalCapitalForReallocation,
                     invoked |-> newAlloc # NoCall,
                     branch |-> branch])
            /\ history' = Append(history,
                    [month |-> m,
                     stockValues |-> clamped,
                     bankValue |-> ToFixed2(clampedBank),
                     totalPortfolioValue |-> ToFixed2(Add(SumValues(clamped), clampedBank)),
                     totalCapitalInvested |-> ToFixed2(cumulative)])
    /\ m' = m + 1
    /\ UNCHANGED <<pc, params, allocCall, allocResult, scenarioState, investmentState,
                   invocationState, engineState>>

\* The loop of q3.ts ends as the loop of stock-market-simulator.ts does.
NextQ3 == Q3CallThrows \/ Q3CallMonth0 \/ Q3MonthStep \/ Return

SpecQ3 == Init /\ [][NextQ3]_vars

----------------------------------------------------------------------------
(* Properties of simulateInvestmentStrategy                                *)

Months == 1..Len(history)

\* Some month of the run took the given branch of step 4.
TookBranch(b) == \E j \in 1..Len(reallocations) : reallocations[j].branch = b

\* C1: the N-th recorded state has totalCapitalInvested equal to
\* initialInvestment + N * monthlyDeposit, whatever happened in months 1..N.
CapitalInvestedIsLinear ==
    \A k \in Months :
        Eq(history[k].totalCapitalInvested,
           Add(initialInvestment, Mul(<<k - 1, 1>>, monthlyDeposit)))

\* A complete run with deposits in which the portfolio was wiped out.
CapitalInvestedWitness ==
    /\ pc = "returned"
    /\ Len(history) >= 3
    /\ Gt(initialInvestment, Zero) /\ Gt(monthlyDeposit, Zero)
    /\ TookBranch("wipeout")
    /\ Eq(history[3].totalCapitalInvested, Q(3, 2))

HistoryShape ==
    /\ pc = "returned" => Len(history) = durationInMonths[1] + 1
    /\ pc \in {"loop", "returned"} => \A k \in Months : history[k].month = k - 1

\* Inside the loop the counter is in range and one state per past month is recorded.
LoopCounterInRange ==
    pc = "loop" => /\ 1 <= m /\ m <= durationInMonths[1] + 1
                   /\ Len(history) = m

\* A step taken inside the loop records one more month or returns.
LoopStep ==
    pc = "loop" => \/ pc' = "loop" /\ m' = m + 1 /\ Len(history') = Len(history) + 1
                   \/ pc' = "returned" /\ history' = history

\* C2: a call that passes the top-level checks never throws afterwards; every
\* step of the loop records the next month, the counter never passes
\* durationInMonths + 1 (so the loop ends), and what is returned is exactly
\* the months 0, 1, ..., durationInMonths, whatever the totals were.
CompleteHistoryAlways ==
    /\ []HistoryShape
    /\ []LoopCounterInRange
    /\ [][LoopStep]_vars

\* A run was returned in full although the total went negative on the way.
CompleteHistoryWitness ==
    /\ pc = "returned"
    /\ Len(history) >= 3
    /\ \E j \in 1..Len(reallocations) : Lt(reallocations[j].total, Zero)

\* C3: every per-asset value of every recorded state is >= 0.
StockValuesNonNegative ==
    \A k \in Months : \A name \in DOMAIN history[k].stockValues :
        Ge(history[k].stockValues[name], Zero)

\* The basket volatility the allocation engine computes for the run's stocks.
RunBasketVolatility ==
    LET bw == calculateBasketWeights(calculateStockSharpeRatios(stocks, bankAccount.interestRate))
    IN  calculateBasketMetrics(stocks, bw.weights, bankAccount.interestRate,
                               correlation).volatility

\* The allocation of the month recorded at history[k] succeeded.
AllocationSucceeded(k) ==
    IF k = 1
    THEN /\ Gt(initialInvestment, Zero)
         /\ ~calculateAllocation(initialInvestment, stocks, bankAccount,
                                 targetOverallVolatility, correlation).threw
    ELSE reallocations[k - 1].branch = "rebalance"

\* C4 as stated: the bank holding of month m is negative only if
\* totalCapitalForReallocation was negative in some month before m.
BankNegativeOnlyAfterNegativeCapital ==
    \A k \in Months :
        Lt(history[k].bankValue, Zero)
            => \E j \in 1..(k - 2) : Lt(reallocations[j].total, Zero)

\* C4 as amended: the bank holding of month m is negative only if
\* totalCapitalForReallocation of month m itself is negative, or the month's
\* allocation succeeded with a target volatility above the basket volatility.
BankNegativeOnlyLeveragedOrInDebt ==
    \A k \in Months :
        Lt(history[k].bankValue, Zero)
            => \/ k >= 2 /\ Lt(reallocations[k - 1].total, Zero)
               \/ AllocationSucceeded(k) /\ Gt(targetOverallVolatility, RunBasketVolatility)

\* The bank holding is negative at month 0 by leverage and at month 1 by debt.
BankNegativeWitness ==
    /\ Len(history) >= 2
    /\ Lt(history[1].bankValue, Zero)
    /\ Lt(history[2].bankValue, Zero)
    /\ reallocations[1].branch = "wipeout"

\* No two stocks of the run share a name.
DistinctNames ==
    \A i, j \in 1..Len(stocks) : stocks[i].name = stocks[j].name => i = j

\* C5: in every recorded state totalPortfolioValue differs from the sum of the
\* recorded stockValues plus the recorded bankValue by less than one cent,
\* when the asset names are distinct.
TotalMatchesHoldings ==
    DistinctNames =>
        \A k \in Months :
            Lt(MathAbs(Sub(history[k].totalPortfolioValue,
                           Add(SumValues(history[k].stockValues), history[k].bankValue))),
               Q(1, 100))

\* C10: a run that got past the call (it is looping or has returned a history)
\* was given a bank rate in [0.01, 0.076], a correlation in [-1, 1], a
\* non-negative target volatility and stocks of positive volatility only.
InvalidInputsSurfaced ==
    pc \in {"loop", "returned"} =>
        /\ Ge(bankAccount.interestRate, Q(1, 100)) /\ Le(bankAccount.interestRate, Q(76, 1000))
        /\ Ge(correlation, <<-1, 1>>) /\ Le(correlation, One)
        /\ Ge(targetOverallVolatility, Zero)
        /\ \A i \in 1..Len(stocks) : Gt(stocks[i].volatility, Zero)

\* C11: a call with a negative initial investment, a negative deposit, a
\* negative or fractional duration, or an empty stock list and a positive
\* target volatility throws, and no state (not even month 0) is recorded.
TopLevelFailuresThrow ==
    (/\ pc # "idle"
     /\ \/ Lt(initialInvestment, Zero)
        \/ Lt(monthlyDeposit, Zero)
        \/ Lt(durationInMonths, Zero)
        \/ ~IsInteger(durationInMonths)
        \/ Len(stocks) = 0 /\ Gt(targetOverallVolatility, Zero))
        => pc = "threw" /\ history = <<>>

\* The only fault of the call is a positive target without any stock.
TopLevelFailuresWitness ==
    /\ pc = "threw"
    /\ history = <<>>
    /\ stocks = <<>> /\ Gt(targetOverallVolatility, Zero)
    /\ Ge(initialInvestment, Zero) /\ Ge(monthlyDeposit, Zero)
    /\ Ge(durationInMonths, Zero) /\ IsInteger(durationInMonths)

\* The inputs of the run satisfy the preconditions of the simulation and of
\* the allocation engine.
RunInputsValid ==
    /\ Ge(initialInvestment, Zero) /\ Ge(monthlyDeposit, Zero)
    /\ Ge(durationInMonths, Zero) /\ IsInteger(durationInMonths)
    /\ \A i \in 1..Len(stocks) : Gt(stocks[i].volatility, Zero) /\ stocks[i].name # ""
    /\ Ge(bankAccount.interestRate, Q(1, 100)) /\ Le(bankAccount.interestRate, Q(76, 1000))
    /\ Ge(targetOverallVolatility, Zero)
    /\ Len(stocks) = 0 => Eq(targetOverallVolatility, Zero)
    /\ Ge(correlation, <<-1, 1>>) /\ Le(correlation, One)

\* C12: a run of duration 0 on valid inputs returns the single state of month
\* 0; its total is initialInvestment, and its per-asset values and its bank
\* value are the amounts a direct call of calculateAllocation on
\* initialInvestment returns (also for initialInvestment = 0).
ZeroDurationMatchesDirectCall ==
    (pc = "returned" /\ Eq(durationInMonths, Zero) /\ RunInputsValid) =>
        LET direct == calculateAllocation(initialInvestment, stocks, bankAccount,
                                          targetOverallVolatility, correlation)
        IN  /\ Len(history) = 1
            /\ history[1].month = 0
            /\ Eq(history[1].totalPortfolioValue, initialInvestment)
            /\ ~direct.threw
            /\ \A i \in 1..Len(stocks) :
                  Eq(history[1].stockValues[stocks[i].name], direct.stocks[i].amount)
            /\ Eq(history[1].bankValue, direct.bankAllocation.amount)

\* A number of whole cents (rounding leaves NaN and the infinities as they are).
IsWholeCents(x) == IsFinite(x) => 100 % x[2] = 0

\* C13: every numeric field of every recorded state, of month 0 as of the
\* later months, is a whole number of cents.
RecordedFieldsRounded ==
    \A k \in Months :
        /\ \A name \in DOMAIN history[k].stockValues :
              IsWholeCents(history[k].stockValues[name])
        /\ IsWholeCents(history[k].bankValue)
        /\ IsWholeCents(history[k].totalPortfolioValue)
        /\ IsWholeCents(history[k].totalCapitalInvested)

\* The month recorded last and what step 4 did in it.
InLoopMonth == pc \in {"loop", "returned"} /\ Len(reallocations) >= 1
LastReallocation == reallocations[Len(reallocations)]
LastRecorded == history[Len(history)]

\* 1 + interestRate / 12
MonthlyBankFactor == Add(One, Div(bankAccount.interestRate, Twelve))

\* C17: in a month with totalCapitalForReallocation > 0 in which the
\* allocation fails, every asset keeps its grown value, the bank holds the
\* total minus the grown asset values, which is the grown bank holding plus
\* the deposit, and the holdings sum to the total.
FallbackKeepsGrownValues ==
    (InLoopMonth /\ LastReallocation.branch = "fallback") =>
        /\ Gt(LastReallocation.total, Zero)
        /\ currentStockHoldings = LastReallocation.grownStockHoldings
        /\ LastRecorded.stockValues = LastReallocation.grownStockHoldings
        /\ currentBankHolding =
              Sub(LastReallocation.total, SumValues(LastReallocation.grownStockHoldings))
        /\ currentBankHolding = Add(LastReallocation.grownBankHolding, monthlyDeposit)
        /\ Add(SumValues(currentStockHoldings), currentBankHolding) = LastReallocation.total

\* The allocation failed in two months in a row of a run with deposits.
FallbackWitness ==
    /\ InLoopMonth
    /\ Len(reallocations) >= 2
    /\ LastReallocation.branch = "fallback"
    /\ Len(stocks) >= 1
    /\ Gt(monthlyDeposit, Zero)
    /\ Gt(currentBankHolding, initialInvestment)

\* The allocation of month 0 was attempted and failed.
Month0AllocationFailed ==
    /\ Gt(initialInvestment, Zero)
    /\ calculateAllocation(initialInvestment, stocks, bankAccount,
                           targetOverallVolatility, correlation).threw

\* The allocation fails in every month it is called in, or in none; and
\* after a failure at month 0 the whole investment is in the bank and every
\* recorded risky holding is 0.
AllocationFailsAlwaysOrNever ==
    pc \in {"loop", "returned"} =>
        /\ ~(TookBranch("fallback") /\ TookBranch("rebalance"))
        /\ Gt(initialInvestment, Zero) =>
              IF Month0AllocationFailed THEN ~TookBranch("rebalance")
              ELSE ~TookBranch("fallback")
        /\ Month0AllocationFailed =>
              /\ history[1].bankValue = initialInvestment
              /\ \A k \in Months : \A name \in DOMAIN history[k].stockValues :
                    history[k].stockValues[name] = Zero

\* After a failure at month 0 each month turns the bank holding b into
\* b * (1 + interestRate / 12) + monthlyDeposit.
BankOnlyStep ==
    (pc = "loop" /\ m' = m + 1 /\ Month0AllocationFailed) =>
        currentBankHolding' = Add(Mul(currentBankHolding, MonthlyBankFactor), monthlyDeposit)

\* C18: within a run the allocation fails in every month or in none; when it
\* fails at month 0 every risky holding stays 0 and the bank holding follows
\* bank(m) = bank(m-1) * (1 + interestRate/12) + monthlyDeposit.
FailedAllocationKeepsAllInBank ==
    /\ []AllocationFailsAlwaysOrNever
    /\ [][BankOnlyStep]_vars

\* A run of two months with deposits whose allocation failed at month 0.
FailedAllocationWitness ==
    /\ pc = "returned"
    /\ Len(history) = 3
    /\ Month0AllocationFailed
    /\ Len(stocks) >= 1
    /\ Gt(monthlyDeposit, Zero)
    /\ TookBranch("fallback")

MonthOrderStep ==
    (pc = "loop" /\ m' = m + 1) =>
        LET e == reallocations'[Len(reallocations')]
        IN  /\ \E shocks \in [1..Len(stocks) -> Shocks] :
                  e.grownStockHoldings =
                      GrownStockHoldings(currentStockHoldings, stocks, scenario, shocks)
            /\ e.grownBankHolding = Mul(currentBankHolding, MonthlyBankFactor)
            /\ e.total = Add(Add(SumValues(e.grownStockHoldings), e.grownBankHolding),
                             monthlyDeposit)
            /\ e.invoked <=> Gt(e.total, Zero)
            /\ e.branch = "rebalance" =>
                  currentBankHolding' =
                      calculateAllocation(e.total, stocks, bankAccount,
                                          targetOverallVolatility,
                                          correlation).bankAllocation.amount

\* C20: in every month totalCapitalForReallocation is the sum of the previous
\* holdings each grown by its return, plus the previous bank holding grown by
\* interestRate / 12, plus the deposit, which therefore earns nothing in its
\* month; the allocation is computed on that amount.
GrowthThenDepositThenAllocation == [][MonthOrderStep]_vars

\* A month with a deposit in which risky holdings grew and were rebalanced.
MonthOrderWitness ==
    /\ InLoopMonth
    /\ Gt(monthlyDeposit, Zero)
    /\ LastReallocation.branch = "rebalance"
    /\ Gt(SumValues(LastReallocation.grownStockHoldings), Zero)
    /\ Gt(LastReallocation.grownBankHolding, Zero)
    /\ Gt(LastReallocation.total, Zero)

----------------------------------------------------------------------------
(* Determinism at zero volatility                                          *)

\* Every stock of the run has volatility 0 and the scenario is AVERAGE.
ZeroVolatilityAverage ==
    /\ scenario = "AVERAGE"
    /\ \A i \in 1..Len(stocks) : Eq(stocks[i].volatility, Zero)

\* A month of such a run ends in the same state whatever factors are drawn.
ZeroVolatilityStep ==
    (pc = "loop" /\ m' = m + 1 /\ ZeroVolatilityAverage) =>
        \A shocks \in [1..Len(stocks) -> Shocks] : MonthStepWith(shocks)

\* simulateInvestment runs with volatility 0 in the AVERAGE scenario.
InvestmentZeroVolatilityAverage ==
    /\ pc = "investing"
    /\ investmentCall.scenario = "AVERAGE"
    /\ Eq(investmentCall.annualVolatility, Zero)

\* A month of such a run ends in the same state whatever factor is drawn.
InvestmentZeroVolatilityStep ==
    (InvestmentZeroVolatilityAverage /\ m' = m + 1) =>
        \A shock \in Shocks : SimulateInvestmentMonthWith(shock)

\* C15 as stated: at volatility 0 in the AVERAGE scenario no month of either
\* simulator depends on the random draws, and the return simulateInvestment
\* applies is exactly annualExpectedReturn / 12.
ZeroVolatilityExactReturn ==
    [][/\ ZeroVolatilityStep
       /\ InvestmentZeroVolatilityStep
       /\ (InvestmentZeroVolatilityAverage /\ m' = m + 1) =>
             actualMonthlyReturn' = Div(investmentCall.annualExpectedReturn, Twelve)]_vars

\* C15 as amended: at volatility 0 in the AVERAGE scenario no month of either
\* simulator depends on the random draws, and the return simulateInvestment
\* applies is exactly max(-1, annualExpectedReturn / 12).
ZeroVolatilityDeterministic ==
    [][/\ ZeroVolatilityStep
       /\ InvestmentZeroVolatilityStep
       /\ (InvestmentZeroVolatilityAverage /\ m' = m + 1) =>
             actualMonthlyReturn' =
                 MathMax(<<-1, 1>>, Div(investmentCall.annualExpectedReturn, Twelve))]_vars

\* Two months at volatility 0: 5% per month on the balance and on the deposits.
ZeroVolatilityWitnessRun ==
    /\ pc = "investmentReturned"
    /\ investmentCall.scenario = "AVERAGE"
    /\ Eq(investmentCall.annualVolatility, Zero)
    /\ Eq(investmentCall.annualExpectedReturn, Q(3, 5))
    /\ Gt(investmentCall.monthlyInvestmentAmount, Zero)
    /\ Len(results) = 3
    /\ results[3].monthlyReturnApplied = Q(1, 20)
    /\ actualMonthlyReturn = Q(1, 20)
    /\ Gt(portfolioValue, totalAmountInvested)

----------------------------------------------------------------------------
(* Properties of the scenario returns                                      *)

\* C14: for every asset (any expected return, volatility > 0) the mean of the
\* clamped monthly return over a symmetric set of random factors is ordered
\* BEST >= AVERAGE >= WORST.
ScenarioMeansOrdered ==
    pc = "sampled" =>
        /\ Ge(scenarioMeans["BEST"], scenarioMeans["AVERAGE"])
        /\ Ge(scenarioMeans["AVERAGE"], scenarioMeans["WORST"])

----------------------------------------------------------------------------
(* Properties of calculateAllocation                                       *)

AllocCalled == allocCall.made /\ pc \in {"allocReturned", "allocThrew"}

\* The inputs of the call satisfy every documented precondition.
CallInputsValid ==
    /\ Ge(allocCall.totalAmount, Zero)
    /\ \A i \in 1..Len(allocCall.stocks) :
          Gt(allocCall.stocks[i].volatility, Zero) /\ allocCall.stocks[i].name # ""
    /\ Ge(allocCall.bankAccount.interestRate, Q(1, 100))
    /\ Le(allocCall.bankAccount.interestRate, Q(76, 1000))
    /\ Ge(allocCall.targetPortfolioVolatility, Zero)
    /\ Ge(allocCall.correlation, <<-1, 1>>) /\ Le(allocCall.correlation, One)

\* The basket metrics the engine computes for the call's stocks.
CallBasketMetrics ==
    LET rate == allocCall.bankAccount.interestRate
        bw == calculateBasketWeights(calculateStockSharpeRatios(allocCall.stocks, rate))
    IN  calculateBasketMetrics(allocCall.stocks, bw.weights, rate, allocCall.correlation)

\* The basket weight in the portfolio of the call (0 for an empty stock list).
CallBasketWeight ==
    IF Len(allocCall.stocks) = 0 THEN Zero
    ELSE BasketWeightInPortfolio(CallBasketMetrics, allocCall.bankAccount.interestRate,
                                 allocCall.targetPortfolioVolatility).weight

ResultAmounts == [i \in 1..Len(allocResult.stocks) |-> allocResult.stocks[i].amount]

\* C6: whenever calculateAllocation returns a result, the per-asset amounts
\* sum to totalAmount * basketWeightInPortfolio and, together with the bank
\* amount, to totalAmount.
AllocationSumsToTotal ==
    pc = "allocReturned" =>
        /\ Eq(SumSeq(ResultAmounts), Mul(allocCall.totalAmount, CallBasketWeight))
        /\ Eq(Add(SumSeq(ResultAmounts), allocResult.bankAllocation.amount),
              allocCall.totalAmount)

\* C7: with an empty stock list and otherwise valid inputs, a target of 0
\* returns no stock entries and the whole amount in the bank, with weight 100
\* if the amount is positive and 0 if it is 0; a positive target throws.
EmptyListAllocation ==
    (AllocCalled /\ allocCall.stocks = <<>> /\ CallInputsValid) =>
        IF Eq(allocCall.targetPortfolioVolatility, Zero)
        THEN /\ pc = "allocReturned"
             /\ allocResult.stocks = <<>>
             /\ Eq(allocResult.bankAllocation.amount, allocCall.totalAmount)
             /\ allocResult.bankAllocation.weightInTotal =
                    (IF Gt(allocCall.totalAmount, Zero) THEN Hundred ELSE Zero)
        ELSE pc = "allocThrew"

\* Nothing is invested in no stocks: everything (0) goes to the bank at weight 0.
EmptyListWitness ==
    /\ pc = "allocReturned"
    /\ allocCall.stocks = <<>>
    /\ allocCall.totalAmount = Zero
    /\ allocResult.bankAllocation.weightInTotal = Zero

\* C8: when the computed basket volatility is 0 (inputs valid, stocks present):
\* with target 0 the whole amount goes to the basket if the basket return is
\* strictly above the risk-free rate and to the bank otherwise; with a
\* non-zero target the call throws.
ZeroVolatilityBasket ==
    (AllocCalled /\ Len(allocCall.stocks) > 0 /\ CallInputsValid
        /\ Eq(CallBasketMetrics.volatility, Zero)) =>
        IF Eq(allocCall.targetPortfolioVolatility, Zero)
        THEN /\ pc = "allocReturned"
             /\ IF Gt(CallBasketMetrics.expectedReturn, allocCall.bankAccount.interestRate)
                THEN /\ Eq(allocResult.bankAllocation.amount, Zero)
                     /\ Eq(SumSeq(ResultAmounts), allocCall.totalAmount)
                ELSE /\ Eq(allocResult.bankAllocation.amount, allocCall.totalAmount)
                     /\ \A i \in 1..Len(ResultAmounts) : Eq(ResultAmounts[i], Zero)
        ELSE pc = "allocThrew"

\* A zero-volatility basket whose return equals the risk-free rate: all to the bank.
ZeroVolatilityWitness ==
    /\ pc = "allocReturned"
    /\ Len(allocCall.stocks) = 2
    /\ Gt(allocCall.totalAmount, Zero)
    /\ Eq(CallBasketMetrics.volatility, Zero)
    /\ Eq(CallBasketMetrics.expectedReturn, allocCall.bankAccount.interestRate)
    /\ Eq(allocResult.bankAllocation.amount, allocCall.totalAmount)

\* C9: a negative amount, a stock with volatility <= 0 or an empty name, a bank
\* rate below 0.01 or above 0.076, a negative target volatility or a
\* correlation outside [-1, 1] makes the call throw, for an empty stock list too.
InvalidInputsRejected ==
    (AllocCalled /\ ~CallInputsValid) => pc = "allocThrew"

\* The empty list with target 0 would be served, but the rate is above 0.076.
InvalidInputsWitness ==
    /\ pc = "allocThrew"
    /\ allocCall.stocks = <<>>
    /\ Eq(allocCall.targetPortfolioVolatility, Zero)
    /\ Ge(allocCall.totalAmount, Zero)
    /\ Ge(allocCall.correlation, <<-1, 1>>) /\ Le(allocCall.correlation, One)
    /\ Gt(allocCall.bankAccount.interestRate, Q(76, 1000))
    /\ allocResult.error = "BankInterestRateOutOfRange"

----------------------------------------------------------------------------
(* Two invocations and the shared random source                            *)

\* The draws of one invocation are one block of the source's sequence.
DrawsContiguous ==
    \A a, b, c \in 1..Len(drawLog) :
        (a < b /\ b < c /\ drawLog[a] = drawLog[c]) => drawLog[b] = drawLog[a]

\* No invocation is ever suspended before it has returned.
RunsToCompletion == \A i \in Invocations : invocations[i].status # "suspended"

\* A step of one invocation leaves alone what the other invocation has
\* returned or is yet to do, and the locals it works on are its own: the
\* frame starts empty and its history grows by the step's month only.
OtherInvocationUntouched ==
    /\ \A i \in Invocations : (i # active /\ i # active') => invocations'[i] = invocations[i]
    /\ (active' # 0 /\ active' # active) =>
            /\ Len(history') = 1 /\ history'[1].month = 0 /\ reallocations' = <<>>
            /\ DOMAIN currentStockHoldings' = {stocks'[k].name : k \in 1..Len(stocks')}
    /\ (active' # 0 /\ active' = active) =>
            /\ Len(history') = Len(history) + 1
            /\ SubSeq(history', 1, Len(history)) = history
            /\ DOMAIN currentStockHoldings' = DOMAIN currentStockHoldings

\* C16: two invocations on one instance share nothing but the random source:
\* a step of one changes neither the other's record nor locals that are not
\* its own, no invocation is suspended before it returns, and the draws of
\* each invocation form one contiguous block of the sequence of draws.
InvocationsShareOnlyRandomSource ==
    /\ []DrawsContiguous
    /\ []RunsToCompletion
    /\ [][OtherInvocationUntouched]_vars

\* Both invocations have returned, the second called first, and each drew
\* more than once.
TwoRunsWitness ==
    /\ \A i \in Invocations : invocations[i].status = "returned"
    /\ Len(drawLog) >= 4
    /\ drawLog[1] = 2 /\ drawLog[2] = 2
    /\ drawLog[Len(drawLog)] = 1 /\ drawLog[Len(drawLog) - 1] = 1
    /\ Len(invocations[1].history) = 3

----------------------------------------------------------------------------
(* Properties of calculateBasketWeights                                    *)

PositiveRatios == SelectSeq(sharpeCall.stockSharpeRatios, LAMBDA r : Gt(r, Zero))

\* C21: with at least one positive ratio, an asset with a ratio <= 0 gets
\* weight 0 and one with a positive ratio gets ratio / (sum of the positive
\* ratios); with no positive ratio every asset gets 1/n; in both cases every
\* weight lies in [0, 1] and the weights sum to 1.
BasketWeightsPolicy ==
    pc = "weighted" =>
        LET ratios == sharpeCall.stockSharpeRatios
            n == Len(ratios)
        IN  /\ ~weightsResult.threw
            /\ Len(weightsResult.weights) = n
            /\ \A i \in 1..n :
                 LET w == weightsResult.weights[i]
                 IN  /\ Ge(w, Zero) /\ Le(w, One)
                     /\ IF PositiveRatios # <<>>
                        THEN IF Gt(ratios[i], Zero)
                             THEN Eq(w, Div(ratios[i], SumSeq(PositiveRatios)))
                             ELSE Eq(w, Zero)
                        ELSE Eq(w, Div(One, <<n, 1>>))
            /\ Eq(SumSeq(weightsResult.weights), One)

\* Three ratios of mixed sign, two of them positive, have been weighted.
BasketWeightsWitness ==
    /\ pc = "weighted"
    /\ sharpeCall.stockSharpeRatios = <<One, Q(-1, 2), <<3, 1>>>>
    /\ weightsResult.weights = <<Q(1, 4), Zero, Q(3, 4)>>

\* C26: for finite ratios calculateBasketWeights never raises its 'Sum of
\* positive Sharpe ratios is zero' error: the sum of the positive ratios is 0
\* only if no ratio is positive.
DegenerateWeightsUnreachable ==
    /\ pc = "weighted" => ~weightsResult.threw
    /\ Eq(SumSeq(PositiveRatios), Zero) <=> PositiveRatios = <<>>

\* Ratios that sum to zero (-1/2, 1, -1/2) have been weighted.
CancellingRatiosWitness ==
    /\ pc = "weighted"
    /\ sharpeCall.stockSharpeRatios = <<Q(-1, 2), One, Q(-1, 2)>>
    /\ weightsResult.weights = <<Zero, One, Zero>>

----------------------------------------------------------------------------
(* Rebalancing                                                             *)

\* The capital the allocation of the last recorded month was computed for.
CurrentTotal == IF reallocations = <<>> THEN initialInvestment ELSE LastReallocation.total

\* The fractions of a unit of capital the engine gives to each asset and to
\* the bank for the run's parameters.
UnitAllocation ==
    calculateAllocation(One, stocks, bankAccount, targetOverallVolatility, correlation)

\* C22: in every month in which the allocation succeeded, each asset's
\* holding is total * f_i and the bank holding is total * f_bank, with
\* fractions that depend on the run's parameters only, month 0 included.
RebalanceIsPathIndependent ==
    (pc \in {"loop", "returned"} /\ AllocationSucceeded(Len(history))) =>
        /\ ~UnitAllocation.threw
        /\ \A i \in 1..Len(stocks) :
              Eq(currentStockHoldings[stocks[i].name],
                 Mul(CurrentTotal, UnitAllocation.stocks[i].amount))
        /\ Eq(currentBankHolding, Mul(CurrentTotal, UnitAllocation.bankAllocation.amount))

----------------------------------------------------------------------------
(* The BEST scenario                                                       *)

\* 1.5 * (annual expected return / 12)
BestMean(annualExpectedReturn) ==
    Mul(Div(annualExpectedReturn, Twelve), BEST_CASE_RETURN_MULTIPLIER)

BestShockStep ==
    /\ (pc = "loop" /\ m' = m + 1 /\ scenario = "BEST") =>
          \A i \in 1..Len(stocks) :
              /\ Ge(stocks[i].volatility, Zero) =>
                    \A shock \in Shocks :
                        Ge(ActualMonthlyReturn(stocks[i], scenario, shock),
                           BestMean(stocks[i].geometricMean))
              /\ Ge(stocks[i].geometricMean, Zero) =>
                    ~Lt(reallocations'[Len(reallocations')].grownStockHoldings[stocks[i].name],
                        currentStockHoldings[stocks[i].name])
    /\ (pc = "investing" /\ m' = m + 1 /\ investmentCall.scenario = "BEST") =>
          Ge(actualMonthlyReturn', BestMean(investmentCall.annualExpectedReturn))

\* C23: in the BEST scenario the return applied to an asset (of volatility
\* >= 0) in a month is at least 1.5 * (annual expected return / 12) whatever
\* the random factor, in both simulators, and with a non-negative expected
\* return no risky holding is smaller after the growth step than before it.
BestShockNeverNegative == [][BestShockStep]_vars

\* A month of a BEST run in which a random factor of magnitude sqrt(12) made
\* a positive holding of G grow by 9/40 + 9/20.
BestShockWitness ==
    /\ scenario = "BEST"
    /\ InLoopMonth
    /\ "G" \in DOMAIN history[1].stockValues
    /\ Gt(history[1].stockValues["G"], Zero)
    /\ reallocations[1].grownStockHoldings["G"]
          = Mul(history[1].stockValues["G"], Add(One, Add(Q(9, 40), Q(9, 20))))

----------------------------------------------------------------------------
(* Asset names                                                             *)

\* C24: a stock list with two assets of the same name is rejected: no run of
\* simulateInvestmentStrategy gets past its checks with such a list, and no
\* direct call of calculateAllocation returns a result for one.
DuplicateNamesRejected ==
    /\ pc \in {"loop", "returned"} => DistinctNames
    /\ pc = "allocReturned" =>
          \A i, j \in 1..Len(allocCall.stocks) :
              allocCall.stocks[i].name = allocCall.stocks[j].name => i = j

----------------------------------------------------------------------------
(* The basket variance                                                     *)

\* The basket variance the engine computes for the call's stocks.
CallBasketVariance ==
    LET rate == allocCall.bankAccount.interestRate
        bw == calculateBasketWeights(calculateStockSharpeRatios(allocCall.stocks, rate))
    IN  BasketVariance(allocCall.stocks, bw.weights, allocCall.correlation, 1)

\* C27: for every input validateInputs accepts, the basket variance is >= 0,
\* the basket volatility is a number, and so is every amount
\* calculateAllocation returns.
BasketVarianceNonNegative ==
    (AllocCalled /\ CallInputsValid /\ Len(allocCall.stocks) > 0) =>
        /\ Ge(CallBasketVariance, Zero)
        /\ ~IsNaN(CallBasketMetrics.volatility)
        /\ pc = "allocReturned" =>
              /\ \A i \in 1..Len(allocResult.stocks) : ~IsNaN(allocResult.stocks[i].amount)
              /\ ~IsNaN(allocResult.bankAllocation.amount)

----------------------------------------------------------------------------
(* Leverage and debt                                                       *)

\* C28: on valid inputs with a target volatility that does not exceed the
\* basket volatility, the bank holding and the total of every recorded state
\* are >= 0 and totalCapitalForReallocation is never negative, for every
\* scenario and every sequence of random draws.
NoLeverageNoDebt ==
    (pc \in {"loop", "returned"} /\ RunInputsValid
        /\ Le(targetOverallVolatility, RunBasketVolatility)) =>
        /\ Ge(currentBankHolding, Zero)
        /\ \A k \in Months :
              /\ Ge(history[k].bankValue, Zero)
              /\ Ge(history[k].totalPortfolioValue, Zero)
        /\ \A j \in 1..Len(reallocations) : Ge(reallocations[j].total, Zero)

\* Two months of an unleveraged run in the WORST scenario in which the risky
\* holdings lost value, were rebalanced, and the bank holding stayed positive.
NoLeverageWitness ==
    /\ pc = "returned" /\ RunInputsValid
    /\ scenario = "WORST"
    /\ Gt(targetOverallVolatility, Zero)
    /\ Le(targetOverallVolatility, RunBasketVolatility)
    /\ Len(reallocations) = 2
    /\ \A j \in 1..2 : reallocations[j].branch = "rebalance"
    /\ Lt(reallocations[2].total, reallocations[1].total)
    /\ Lt(reallocations[1].total, initialInvestment)
    /\ Gt(currentBankHolding, Zero)

----------------------------------------------------------------------------
(* Wipe-out                                                                *)

WipeoutStep ==
    (/\ pc = "loop" /\ m' = m + 1
     /\ Eq(monthlyDeposit, Zero)
     /\ ~InterestRateOutOfRange(bankAccount.interestRate)
     /\ Len(reallocations) >= 1 /\ Le(LastReallocation.total, Zero)) =>
        LET e == reallocations'[Len(reallocations')]
        IN  /\ Le(e.total, Zero)
            /\ ~e.invoked
            /\ \A name \in DOMAIN currentStockHoldings' : currentStockHoldings'[name] = Zero
            /\ currentBankHolding' = Mul(currentBankHolding, MonthlyBankFactor)

\* C29: without deposits and with a valid bank rate, a month that follows a
\* month with totalCapitalForReallocation <= 0 has a total <= 0 again, does
\* not invoke the allocation engine, holds no risky asset, and its bank
\* holding is the previous one times (1 + interestRate/12).
WipeoutIsAbsorbing == [][WipeoutStep]_vars

\* A run without deposits was wiped out in month 1 and its debt has grown in
\* month 2.
WipeoutAbsorbedWitness ==
    /\ Eq(monthlyDeposit, Zero)
    /\ Len(reallocations) = 2
    /\ Lt(reallocations[1].total, Zero)
    /\ reallocations[2].total = Mul(reallocations[1].total, MonthlyBankFactor)
    /\ Lt(reallocations[2].total, reallocations[1].total)
    /\ Lt(currentBankHolding, Zero)

\* A run with deposits was wiped out in one month and rebalanced in the next.
WipeoutLeftWithDeposit ==
    /\ Gt(monthlyDeposit, Zero)
    /\ \E j \in 1..(Len(reallocations) - 1) :
          /\ Le(reallocations[j].total, Zero)
          /\ reallocations[j + 1].branch = "rebalance"

----------------------------------------------------------------------------
(* The variant of q3.ts                                                    *)

\* C25: in the q3.ts variant every recorded state, month 0 included, has a
\* bankValue >= 0 and per-asset values >= 0, for every accepted input.
Q3RecordedValuesNonNegative ==
    \A k \in Months :
        /\ Ge(history[k].bankValue, Zero)
        /\ \A name \in DOMAIN history[k].stockValues :
              Ge(history[k].stockValues[name], Zero)

\* Every asset of the call has a strictly positive Sharpe ratio.
CallSharpeRatiosPositive ==
    LET ratios == calculateStockSharpeRatios(allocCall.stocks,
                                             allocCall.bankAccount.interestRate)
    IN  \A i \in 1..Len(ratios) : Gt(ratios[i], Zero)

\* C30: for a positive totalAmount, a non-empty stock list whose Sharpe
\* ratios are all strictly positive and otherwise valid parameters, the
\* engines of q3.ts and of stock-market-simulator.ts both fail or return the
\* same per-asset amounts and weights and the same bank amount and weight.
EnginesAgreeOnPositiveSharpe ==
    (/\ pc = "enginesReturned"
     /\ Gt(allocCall.totalAmount, Zero)
     /\ Len(allocCall.stocks) > 0
     /\ CallInputsValid
     /\ CallSharpeRatiosPositive) =>
        /\ allocResult.threw = q3AllocResult.threw
        /\ ~allocResult.threw =>
              /\ allocResult.stocks = q3AllocResult.stocks
              /\ allocResult.bankAllocation = q3AllocResult.bankAllocation

\* Both engines gave 25, 12.5 and 12.5 of 100 to three assets of unequal
\* Sharpe ratios and 50 to the bank.
EnginesAgreeWitness ==
    /\ pc = "enginesReturned"
    /\ allocCall.totalAmount = Hundred
    /\ Len(allocCall.stocks) = 3
    /\ CallInputsValid /\ CallSharpeRatiosPositive
    /\ ~allocResult.threw /\ ~q3AllocResult.threw
    /\ [i \in 1..3 |-> q3AllocResult.stocks[i].amount] = <<Q(25, 1), Q(25, 2), Q(25, 2)>>
    /\ allocResult.bankAllocation.amount = Q(50, 1)

====
